---- MODULE Spec2Model ----
(***************************************************************************)
(* A model of bbsfw, the BBS firewall: the IP filter (whitelist, blocklist *)
(* with IPv4 CIDR, sliding-window rate limit, temporary blocks, janitor),  *)
(* the TCP front-end (global connection cap, admission, backend dial,      *)
(* teardown), the SSH front-end (IP filter, authentication, the requests   *)
(* on the session channel, shell bridge), the encoding detector and the    *)
(* geo decision.                                                           *)
(*                                                                         *)
(* Address strings.  A JavaScript string holding an address or a list      *)
(* entry is modelled by the record                                         *)
(*     [pfx, oct, txt, bits]                                               *)
(* which stands for the text                                               *)
(*     pfx[1] pfx[2] ... o1.o2.o3.o4 txt /bits                             *)
(* pfx is a sequence of "::ffff:" tokens (in either letter case), oct is   *)
(* the dotted quad (empty when the text is no dotted quad), txt is         *)
(* remaining text without '.' and '/' (an IPv6 literal, the word           *)
(* unknown), bits is the number after a '/' or NoBits when there is no     *)
(* '/'.  txt is non-empty only when oct is empty, so two records are       *)
(* equal exactly when the strings are.                                     *)
(***************************************************************************)
EXTENDS Integers, Sequences, FiniteSets, TLC

\* ------------------------------------------------------------------ bounds
\* the clock runs over 0..MaxTime (one unit is one second)
MaxTime == 3
\* direct shouldAllowConnection calls made in SpecFilter
MaxCalls == 4
\* connections accepted by the listeners in Spec
MaxConns == 2
\* 'data' events of the session followed in SpecPump
MaxChunks == 3
\* channel requests on the session channel followed in SpecSSH
MaxRequests == 3

NoBits == 0 - 1

\* ------------------------------------------------------- address strings
Str(pfx, oct, txt, bits) == [pfx |-> pfx, oct |-> oct, txt |-> txt, bits |-> bits]
V4(a, b, c, d)           == Str(<<>>, <<a, b, c, d>>, "", NoBits)
Mapped(ip)               == [ip EXCEPT !.pfx = <<"::ffff:">> \o @]
MappedUpper(ip)          == [ip EXCEPT !.pfx = <<"::FFFF:">> \o @]
Cidr(ip, n)              == [ip EXCEPT !.bits = n]
Text(t)                  == Str(<<>>, <<>>, t, NoBits)

\* socket.remoteAddress when the peer address is not available
Undefined   == Text("<undefined>")
EmptyString == Text("")

\* !ipAddress || typeof ipAddress !== 'string'
IsInvalidIP(ip) == ip = Undefined \/ ip = EmptyString

\* ipAddress.replace(/^::ffff:/i, ''): removes one leading token, of either case
normalize(ip) ==
  IF ip.pfx # <<>> THEN [ip EXCEPT !.pfx = Tail(@)] ELSE ip

TwoPow(n) == 2 ^ n

\* A 32-bit unsigned integer is kept as <<high 16 bits, low 16 bits>>.
\* ipToInt: null (here <<>>) unless split('.') gives 4 parts; a part that
\* parseInt cannot read (the first part of "::ffff:1.2.3.4") is NaN, and
\* NaN << 8 is 0, so it and all parts before it contribute nothing.
ipToInt(s) ==
  IF Len(s.oct) # 4 THEN <<>>
  ELSE LET p0  == IF s.pfx # <<>> THEN 0 ELSE s.oct[1]
           low == s.oct[3] * 256 + s.oct[4]
           hi  == (p0 * 256 + s.oct[2] + (low \div 65536)) % 65536
       IN  <<hi, low % 65536>>

\* x & mask, with mask = (~0 << sh) >>> 0, i.e. the low sh bits cleared
MaskLow(x, sh) ==
  IF sh >= 16 THEN <<x[1] - (x[1] % TwoPow(sh - 16)), 0>>
  ELSE <<x[1], x[2] - (x[2] % TwoPow(sh))>>

\* the text before the '/' of an entry
RangeOf(cidr) == [cidr EXCEPT !.bits = NoBits]

\* ipMatchesCIDR shifting by the prefix length instead of 32 - prefix length
ipMatchesCIDR_ShiftByBits(ip, cidr) ==
  IF cidr.bits = NoBits THEN ip = cidr
  ELSE LET ipInt    == ipToInt(ip)
           rangeInt == ipToInt(RangeOf(cidr))
           sh       == cidr.bits % 32
       IN  IF ipInt = <<>> \/ rangeInt = <<>> THEN ip = cidr
           ELSE MaskLow(ipInt, sh) = MaskLow(rangeInt, sh)

ipMatchesCIDR(ip, cidr) ==
  IF cidr.bits = NoBits THEN ip = cidr
  ELSE LET ipInt    == ipToInt(ip)
           rangeInt == ipToInt(RangeOf(cidr))
           \* JavaScript takes a shift count modulo 32
           sh       == (32 - cidr.bits) % 32
       IN  IF ipInt = <<>> \/ rangeInt = <<>> THEN ip = cidr
           ELSE MaskLow(ipInt, sh) = MaskLow(rangeInt, sh)

\* --------------------------------------------------------------- IPFilter
isIPWhitelisted(cfg, ipAddress) ==
  IF IsInvalidIP(ipAddress) THEN FALSE
  ELSE LET cleanIp == normalize(ipAddress)
       IN  \/ cleanIp \in cfg.whitelist
           \/ ipAddress \in cfg.whitelist
           \/ \E entry \in cfg.whitelist : ipMatchesCIDR(cleanIp, entry)

isIPInBlocklist(cfg, ipAddress) ==
  IF IsInvalidIP(ipAddress) THEN FALSE
  ELSE LET cleanIp == normalize(ipAddress)
       IN  \/ cleanIp \in cfg.blocklist
           \/ ipAddress \in cfg.blocklist
           \/ \E entry \in cfg.blocklist : ipMatchesCIDR(cleanIp, entry)

\* reasons and results; a reason is [txt, n, w], n and w filling the template
Reason(t)   == [txt |-> t, n |-> 0, w |-> 0]
NoReason    == Reason("")
RateReason(n, w) ==
  [txt |-> "Rate limit exceeded: N connections in Wms", n |-> n, w |-> w]
Result(a, wl, r) == [allowed |-> a, whitelisted |-> wl, reason |-> r]

\* a Map: put and delete
MapSet(m, k, v) == [x \in DOMAIN m \cup {k} |-> IF x = k THEN v ELSE m[x]]
MapDel(m, k)    == [x \in DOMAIN m \ {k} |-> m[x]]
EmptyMap        == [x \in {} |-> 0]

\* attempts.filter(time => time > windowStart)
RECURSIVE Recent(_, _)
Recent(attempts, windowStart) ==
  IF attempts = <<>> THEN <<>>
  ELSE IF Head(attempts) > windowStart
       THEN <<Head(attempts)>> \o Recent(Tail(attempts), windowStart)
       ELSE Recent(Tail(attempts), windowStart)

\* the filter's mutable state: F = [connectionAttempts, blockedIPs]
blockIP(cfg, F, ipAddress, durationMs, reason, t) ==
  LET cleanIp == normalize(ipAddress)
  IN  [F EXCEPT !.blockedIPs =
         MapSet(@, cleanIp, [blockedUntil |-> t + durationMs,
                             reason       |-> reason,
                             blockedAt    |-> t])]

\* isIPBlocked returns {blocked, reason, temporary} and may delete an expired
\* block: the pair [res, F] is its result and the state it leaves
BlockCheck(b, r, tmp) == [blocked |-> b, reason |-> r, temporary |-> tmp]

\* isIPBlocked keeping a block in force at blockedUntil itself
isIPBlocked_UntilInclusive(cfg, F, ipAddress, t) ==
  IF IsInvalidIP(ipAddress) THEN [res |-> BlockCheck(FALSE, NoReason, FALSE), F |-> F]
  ELSE
    LET cleanIp   == normalize(ipAddress)
        hasBlock  == cleanIp \in DOMAIN F.blockedIPs
        inForce   == hasBlock /\ t <= F.blockedIPs[cleanIp].blockedUntil
        F1        == IF hasBlock /\ ~inForce
                     THEN [F EXCEPT !.blockedIPs = MapDel(@, cleanIp)]
                     ELSE F
    IN  IF inForce
        THEN [res |-> BlockCheck(TRUE, F.blockedIPs[cleanIp].reason, TRUE), F |-> F]
        ELSE IF isIPInBlocklist(cfg, ipAddress)
             THEN [res |-> BlockCheck(TRUE, Reason("IP in blocklist"), FALSE), F |-> F1]
             ELSE [res |-> BlockCheck(FALSE, NoReason, FALSE), F |-> F1]

isIPBlocked(cfg, F, ipAddress, t) ==
  IF IsInvalidIP(ipAddress) THEN [res |-> BlockCheck(FALSE, NoReason, FALSE), F |-> F]
  ELSE
    LET cleanIp   == normalize(ipAddress)
        hasBlock  == cleanIp \in DOMAIN F.blockedIPs
        inForce   == hasBlock /\ t < F.blockedIPs[cleanIp].blockedUntil
        F1        == IF hasBlock /\ ~inForce
                     THEN [F EXCEPT !.blockedIPs = MapDel(@, cleanIp)]
                     ELSE F
    IN  IF inForce
        THEN [res |-> BlockCheck(TRUE, F.blockedIPs[cleanIp].reason, TRUE), F |-> F]
        ELSE IF isIPInBlocklist(cfg, ipAddress)
             THEN [res |-> BlockCheck(TRUE, Reason("IP in blocklist"), FALSE), F |-> F1]
             ELSE [res |-> BlockCheck(FALSE, NoReason, FALSE), F |-> F1]

\* recordConnectionAttempt comparing with >= instead of >
recordConnectionAttempt_GE(cfg, F, ipAddress, t) ==
  IF ~cfg.rateLimitEnabled THEN [exceeded |-> FALSE, F |-> F]
  ELSE IF IsInvalidIP(ipAddress) THEN [exceeded |-> FALSE, F |-> F]
  ELSE
    LET cleanIp        == normalize(ipAddress)
        old            == IF cleanIp \in DOMAIN F.connectionAttempts
                          THEN F.connectionAttempts[cleanIp] ELSE <<>>
        recentAttempts == Recent(Append(old, t), t - cfg.rateLimitWindowMs)
        F1             == [F EXCEPT !.connectionAttempts =
                                      MapSet(@, cleanIp, recentAttempts)]
    IN  IF Len(recentAttempts) >= cfg.maxConnectionsPerWindow
        THEN [exceeded |-> TRUE,
              F |-> blockIP(cfg, F1, cleanIp, cfg.rateLimitBlockDurationMs,
                            RateReason(Len(recentAttempts), cfg.rateLimitWindowMs), t)]
        ELSE [exceeded |-> FALSE, F |-> F1]

\* recordConnectionAttempt returns true when the limit is exceeded (undefined
\* or false otherwise, both falsy)
recordConnectionAttempt(cfg, F, ipAddress, t) ==
  IF ~cfg.rateLimitEnabled THEN [exceeded |-> FALSE, F |-> F]
  ELSE IF IsInvalidIP(ipAddress) THEN [exceeded |-> FALSE, F |-> F]
  ELSE
    LET cleanIp        == normalize(ipAddress)
        old            == IF cleanIp \in DOMAIN F.connectionAttempts
                          THEN F.connectionAttempts[cleanIp] ELSE <<>>
        attempts       == Append(old, t)
        windowStart    == t - cfg.rateLimitWindowMs
        recentAttempts == Recent(attempts, windowStart)
        F1             == [F EXCEPT !.connectionAttempts =
                                      MapSet(@, cleanIp, recentAttempts)]
    IN  IF Len(recentAttempts) > cfg.maxConnectionsPerWindow
        THEN [exceeded |-> TRUE,
              F |-> blockIP(cfg, F1, cleanIp, cfg.rateLimitBlockDurationMs,
                            RateReason(Len(recentAttempts), cfg.rateLimitWindowMs), t)]
        ELSE [exceeded |-> FALSE, F |-> F1]

\* shouldAllowConnection recording the attempt before it looks at the whitelist
shouldAllowConnection_RecordFirst(cfg, F, ipAddress, t) ==
  IF IsInvalidIP(ipAddress)
  THEN [res |-> Result(FALSE, FALSE, Reason("Invalid IP address")), F |-> F]
  ELSE
    LET rec == recordConnectionAttempt(cfg, F, ipAddress, t)
    IN  IF isIPWhitelisted(cfg, ipAddress)
        THEN [res |-> Result(TRUE, TRUE, NoReason), F |-> rec.F]
        ELSE IF isIPBlocked(cfg, F, ipAddress, t).res.blocked
        THEN [res |-> Result(FALSE, FALSE, isIPBlocked(cfg, F, ipAddress, t).res.reason),
              F |-> isIPBlocked(cfg, F, ipAddress, t).F]
        ELSE IF rec.exceeded
        THEN [res |-> Result(FALSE, FALSE, Reason("Rate limit exceeded")), F |-> rec.F]
        ELSE [res |-> Result(TRUE, FALSE, NoReason), F |-> rec.F]

\* shouldAllowConnection asking the blocklist before the whitelist
shouldAllowConnection_BlocklistFirst(cfg, F, ipAddress, t) ==
  IF IsInvalidIP(ipAddress)
  THEN [res |-> Result(FALSE, FALSE, Reason("Invalid IP address")), F |-> F]
  ELSE
    LET blockCheck == isIPBlocked(cfg, F, ipAddress, t)
    IN  IF blockCheck.res.blocked
        THEN [res |-> Result(FALSE, FALSE, blockCheck.res.reason), F |-> blockCheck.F]
        ELSE IF isIPWhitelisted(cfg, ipAddress)
        THEN [res |-> Result(TRUE, TRUE, NoReason), F |-> F]
        ELSE
          LET rec == recordConnectionAttempt(cfg, blockCheck.F, ipAddress, t)
          IN  IF rec.exceeded
              THEN [res |-> Result(FALSE, FALSE, Reason("Rate limit exceeded")),
                    F |-> rec.F]
              ELSE [res |-> Result(TRUE, FALSE, NoReason), F |-> rec.F]

\* shouldAllowConnection: [res, F], the returned object and the state left
shouldAllowConnection(cfg, F, ipAddress, t) ==
  IF IsInvalidIP(ipAddress)
  THEN [res |-> Result(FALSE, FALSE, Reason("Invalid IP address")), F |-> F]
  ELSE IF isIPWhitelisted(cfg, ipAddress)
  THEN [res |-> Result(TRUE, TRUE, NoReason), F |-> F]
  ELSE
    LET blockCheck == isIPBlocked(cfg, F, ipAddress, t)
    IN  IF blockCheck.res.blocked
        THEN [res |-> Result(FALSE, FALSE, blockCheck.res.reason), F |-> blockCheck.F]
        ELSE
          LET rec == recordConnectionAttempt(cfg, blockCheck.F, ipAddress, t)
          IN  IF rec.exceeded
              THEN [res |-> Result(FALSE, FALSE, Reason("Rate limit exceeded")),
                    F |-> rec.F]
              ELSE [res |-> Result(TRUE, FALSE, NoReason), F |-> rec.F]

\* cleanupOldAttempts removing every temporary block, expired or not
cleanupOldAttempts_ClearsBlocks(cfg, F, t) ==
  LET windowStart == t - cfg.rateLimitWindowMs
      keep        == {ip \in DOMAIN F.connectionAttempts :
                        Recent(F.connectionAttempts[ip], windowStart) # <<>>}
  IN  [connectionAttempts |->
         [ip \in keep |-> Recent(F.connectionAttempts[ip], windowStart)],
       blockedIPs |-> EmptyMap]

\* cleanupOldAttempts storing the pruned list also when it is empty
cleanupOldAttempts_KeepsEmpty(cfg, F, t) ==
  LET windowStart == t - cfg.rateLimitWindowMs
      live        == {ip \in DOMAIN F.blockedIPs : ~(t >= F.blockedIPs[ip].blockedUntil)}
  IN  [connectionAttempts |->
         [ip \in DOMAIN F.connectionAttempts |->
            Recent(F.connectionAttempts[ip], windowStart)],
       blockedIPs |-> [ip \in live |-> F.blockedIPs[ip]]]

\* cleanupOldAttempts, the janitor run by setInterval every minute
cleanupOldAttempts(cfg, F, t) ==
  LET windowStart == t - cfg.rateLimitWindowMs
      keep        == {ip \in DOMAIN F.connectionAttempts :
                        Recent(F.connectionAttempts[ip], windowStart) # <<>>}
      live        == {ip \in DOMAIN F.blockedIPs : ~(t >= F.blockedIPs[ip].blockedUntil)}
  IN  [connectionAttempts |->
         [ip \in keep |-> Recent(F.connectionAttempts[ip], windowStart)],
       blockedIPs |-> [ip \in live |-> F.blockedIPs[ip]]]

\* ------------------------------------------------------------ pieces of text
\* A terminal type or the value of an environment variable is a sequence of
\* pieces of text, "xterm-256color" being <<"xterm", "-256color">> and
\* "en_US.UTF-8" being <<"en_US", ".", "UTF-8">>; includes() looks for the
\* pieces of the needle in a row.
Includes(s, sub) ==
  \E i \in 0..(Len(s) - Len(sub)) : SubSeq(s, i + 1, i + Len(sub)) = sub

\* String.prototype.toUpperCase / toLowerCase, piece by piece
UpperPiece(p) ==
  CASE p = "utf-8" -> "UTF-8" [] p = "utf8" -> "UTF8" [] p = "Utf-8" -> "UTF-8"
    [] p = "en_us" -> "EN_US" [] p = "en_US" -> "EN_US" [] p = "c" -> "C"
    [] p = "cn" -> "CN" [] p = "us" -> "US" [] p = "Cn" -> "CN"
    [] OTHER -> p
LowerPiece(p) ==
  CASE p = "XTERM" -> "xterm" [] p = "Xterm" -> "xterm" [] p = "ANSI" -> "ansi"
    [] p = "-BBS" -> "-bbs" [] p = "VT100" -> "vt100" [] p = "-256COLOR" -> "-256color"
    [] OTHER -> p
toUpperCase(s) == [i \in DOMAIN s |-> UpperPiece(s[i])]
toLowerCase(s) == [i \in DOMAIN s |-> LowerPiece(s[i])]

\* ----------------------------------------------------------------- GeoIP
NoCountry == "none"

\* GeoIPLookup.lookup / getCountryInfo: the country code of the cleaned
\* address, NoCountry when the database has no record (or the reader throws)
\* a record whose country has no iso_code ("" here) gives countryCode null
getCountryInfo(cfg, ipAddress) ==
  IF ~cfg.geoEnabled THEN NoCountry
  ELSE IF normalize(ipAddress) \in DOMAIN cfg.country
       THEN IF cfg.country[normalize(ipAddress)] = "" THEN NoCountry
            ELSE cfg.country[normalize(ipAddress)]
       ELSE NoCountry

\* shouldBlockConnection deciding as GeoIPLookup.isCountryBlocked does: a peer
\* without a country is let in
shouldBlockConnection_AllowsUnknown(cfg, ipAddress) ==
  IF ~cfg.geoEnabled THEN FALSE
  ELSE IF getCountryInfo(cfg, ipAddress) = NoCountry THEN FALSE
  ELSE IF cfg.blockedCountries # {}
       THEN UpperPiece(getCountryInfo(cfg, ipAddress)) \in cfg.blockedCountries
       ELSE FALSE

\* ProxyConnection.shouldBlockConnection; geoEnabled is geoip && geoip.isEnabled,
\* true when the database was loaded
shouldBlockConnection(cfg, ipAddress) ==
  IF ~cfg.geoEnabled THEN FALSE
  ELSE IF getCountryInfo(cfg, ipAddress) = NoCountry THEN cfg.blockUnknownCountries
  ELSE IF cfg.blockedCountries # {}
       THEN UpperPiece(getCountryInfo(cfg, ipAddress)) \in cfg.blockedCountries
       ELSE FALSE

\* ------------------------------------------------------- encoding detector
\* env is null (NoEnv) or a map from variable names to values
NoEnv == [x \in {} |-> <<>>]

\* detectFromSSHEnvironment: utf8 when LANG, LC_ALL or LC_CTYPE has a value
\* that, upper-cased, includes UTF-8 or UTF8
detectFromSSHEnvironment(env) ==
  IF \E varName \in {"LANG", "LC_ALL", "LC_CTYPE"} \cap DOMAIN env :
       /\ env[varName] # <<>>
       /\ \/ Includes(toUpperCase(env[varName]), <<"UTF-8">>)
          \/ Includes(toUpperCase(env[varName]), <<"UTF8">>)
  THEN "utf8" ELSE "cp437"

utf8Terminals ==
  {<<"xterm", "-256color">>, <<"xterm", "-color">>, <<"xterm">>,
   <<"screen", "-256color">>, <<"screen">>, <<"rxvt-unicode">>, <<"konsole">>,
   <<"gnome">>, <<"linux">>, <<"vt220">>, <<"vt100">>}

cp437Terminals ==
  {<<"ansi">>, <<"ansi", "-bbs">>, <<"ansi", "-mono">>, <<"ansi", "-color">>,
   <<"pc", "ansi">>, <<"sco", "ansi">>}

\* detectFromTerminalType; termType <<>> is null or the empty string
detectFromTerminalType(termType) ==
  IF termType = <<>> THEN "cp437"
  ELSE IF \E utf8Term \in utf8Terminals : Includes(toLowerCase(termType), utf8Term)
       THEN "utf8"
  ELSE IF \E cp437Term \in cp437Terminals : Includes(toLowerCase(termType), cp437Term)
       THEN "cp437"
  ELSE "cp437"

\* getBackendPortForEncoding without the test of encodingDetection
getBackendPortForEncoding_IgnoresSwitch(encoding, cfg) ==
  IF encoding = "utf8" THEN cfg.backendPortUTF8 ELSE cfg.backendPortCP437

\* getBackendPortForEncoding
getBackendPortForEncoding(encoding, cfg) ==
  IF ~cfg.encodingDetection THEN cfg.backendPort
  ELSE IF encoding = "utf8" THEN cfg.backendPortUTF8
       ELSE cfg.backendPortCP437

\* ProxyConnection.connect: actualBackendPort, detectedEncoding being the
\* 'cp437' the constructor sets
actualBackendPort(cfg) ==
  IF cfg.encodingDetection THEN getBackendPortForEncoding("cp437", cfg)
  ELSE cfg.backendPort

\* ------------------------------------------------------------- connections
\* One accepted connection.  client is the client socket (TCP) or the SSH
\* transport, backend the socket to the BBS, stream the SSH shell channel.
\* A socket is open, ended (end() called, FIN sent), destroyed (destroyed is
\* true, its 'close' event not yet emitted) or closed ('close' emitted).
\*   verdict   how admission ended
\*   counted   activeConnections++ was executed for it
\*   timer     the 'timeout' handler and idle timer are set on the client socket
\*   onError   what the client's 'error' listeners do: "none", "log", "cleanup"
\*   call      index in calls of its shouldAllowConnection call, 0 if none
\*   bytesFromClient, bytesFromBackend   the two byte counters
\*   rxC, txB  the chunks the 'data' events of the client side delivered, and
\*             those written to the backend socket; rxB, txC the other way
\*   pausedC, pausedB   the client side / the backend socket is paused
\*   needDrainB, needDrainC   write() on the backend socket / on the client side
\*                      returned false and 'drain' has not been emitted since
\*   reports   how often the end of the session was reported, reported the
\*             counters <<client to backend, backend to client>> in the report
\*   port      the port the backend socket was told to connect to, 0 before
\*   dials     (history) the backend sockets created for it
\*   requests  (history) the requests made on the SSH session channel, each
\*             with the handler's answer
\*   first     (history) the first terminating event of the session
\*   dialFailed (history) the backend socket failed before it connected
NewConn(kind, ip) ==
  [kind |-> kind, ip |-> ip, verdict |-> "pending",
   whitelisted |-> FALSE, geoChecked |-> FALSE,
   counted |-> FALSE, timer |-> FALSE, onError |-> "none",
   client |-> "open", backend |-> "none", stream |-> "none",
   isCleanedUp |-> FALSE, reason |-> "", phase |-> "none", call |-> 0,
   bytesFromClient |-> 0, bytesFromBackend |-> 0,
   rxC |-> <<>>, txB |-> <<>>, rxB |-> <<>>, txC |-> <<>>,
   pausedC |-> FALSE, pausedB |-> FALSE,
   needDrainB |-> FALSE, needDrainC |-> FALSE,
   reports |-> 0, reported |-> <<>>,
   port |-> 0, dials |-> 0, requests |-> <<>>,
   first |-> "", dialFailed |-> FALSE]

Destroyed(sock) == sock \in {"destroyed", "closed"}

\* socket.destroy() guarded by !socket.destroyed
Destroy(sock) == IF sock \in {"open", "ended", "connecting"} THEN "destroyed" ELSE sock

NoResult == Result(FALSE, FALSE, Reason("<not asked>"))

\* connect asking the geo-filter about whitelisted peers too
connect_GeoAlways(cfg, F, c, t) ==
  IF IsInvalidIP(c.ip)
  THEN [conn |-> [c EXCEPT !.verdict = "no-peer-address", !.onError = "log",
                           !.client = "ended"],
        F |-> F, res |-> NoResult]
  ELSE
    LET filterResult == shouldAllowConnection(cfg, F, c.ip, t)
    IN  IF ~filterResult.res.allowed
        THEN [conn |-> [c EXCEPT !.verdict = "ip-filter", !.onError = "log",
                                 !.client = "ended"],
              F |-> filterResult.F, res |-> filterResult.res]
        ELSE IF shouldBlockConnection(cfg, c.ip)
        THEN [conn |-> [c EXCEPT !.verdict = "country", !.onError = "log",
                                 !.geoChecked = TRUE, !.client = "ended"],
              F |-> filterResult.F, res |-> filterResult.res]
        ELSE [conn |-> [c EXCEPT !.verdict = "admitted", !.onError = "cleanup",
                                 !.whitelisted = filterResult.res.whitelisted,
                                 !.geoChecked = TRUE, !.backend = "connecting",
                                 !.port = actualBackendPort(cfg), !.dials = 1],
              F |-> filterResult.F, res |-> filterResult.res]

\* connect creating the backend connection before the admission checks
connect_DialFirst(cfg, F, c, t) ==
  LET d == [c EXCEPT !.backend = "connecting",
                     !.port = actualBackendPort(cfg), !.dials = 1] IN
  IF IsInvalidIP(c.ip)
  THEN [conn |-> [d EXCEPT !.verdict = "no-peer-address", !.onError = "log",
                           !.client = "ended"],
        F |-> F, res |-> NoResult]
  ELSE
    LET filterResult == shouldAllowConnection(cfg, F, c.ip, t)
        isWhitelisted == filterResult.res.whitelisted
    IN  IF ~filterResult.res.allowed
        THEN [conn |-> [d EXCEPT !.verdict = "ip-filter", !.onError = "log",
                                 !.client = "ended"],
              F |-> filterResult.F, res |-> filterResult.res]
        ELSE IF ~isWhitelisted /\ shouldBlockConnection(cfg, c.ip)
        THEN [conn |-> [d EXCEPT !.verdict = "country", !.onError = "log",
                                 !.geoChecked = TRUE, !.client = "ended"],
              F |-> filterResult.F, res |-> filterResult.res]
        ELSE [conn |-> [d EXCEPT !.verdict = "admitted", !.onError = "cleanup",
                                 !.whitelisted = isWhitelisted,
                                 !.geoChecked = ~isWhitelisted],
              F |-> filterResult.F, res |-> filterResult.res]

\* ProxyConnection.connect: admission, then the dial.  [conn, F, res]; res is
\* the filter's answer or NoResult when the filter was not asked
connect(cfg, F, c, t) ==
  IF IsInvalidIP(c.ip)
  THEN [conn |-> [c EXCEPT !.verdict = "no-peer-address", !.onError = "log",
                           !.client = "ended"],
        F |-> F, res |-> NoResult]
  ELSE
    LET filterResult == shouldAllowConnection(cfg, F, c.ip, t)
        isWhitelisted == filterResult.res.whitelisted
    IN  IF ~filterResult.res.allowed
        THEN [conn |-> [c EXCEPT !.verdict = "ip-filter", !.onError = "log",
                                 !.client = "ended"],
              F |-> filterResult.F, res |-> filterResult.res]
        ELSE IF ~isWhitelisted /\ shouldBlockConnection(cfg, c.ip)
        THEN [conn |-> [c EXCEPT !.verdict = "country", !.onError = "log",
                                 !.geoChecked = TRUE, !.client = "ended"],
              F |-> filterResult.F, res |-> filterResult.res]
        ELSE [conn |-> [c EXCEPT !.verdict = "admitted", !.onError = "cleanup",
                                 !.whitelisted = isWhitelisted,
                                 !.geoChecked = ~isWhitelisted,
                                 !.backend = "connecting",
                                 !.port = actualBackendPort(cfg), !.dials = 1],
              F |-> filterResult.F, res |-> filterResult.res]

\* handleNewConnection comparing the count with > instead of >=
handleNewConnection_GT(cfg, F, active, ip, t) ==
  IF active > cfg.maxConnections
  THEN [conn |-> [NewConn("tcp", ip) EXCEPT !.verdict = "max-connections",
                                            !.client = "ended"],
        F |-> F, res |-> NoResult, active |-> active]
  ELSE
    LET r == connect(cfg, F, [NewConn("tcp", ip) EXCEPT
                                !.counted = TRUE,
                                !.timer = (cfg.connectionTimeout > 0)], t)
    IN  [conn |-> r.conn, F |-> r.F, res |-> r.res, active |-> active + 1]

\* BBSFirewall.handleNewConnection: [conn, F, res, active]
handleNewConnection(cfg, F, active, ip, t) ==
  IF active >= cfg.maxConnections
  THEN [conn |-> [NewConn("tcp", ip) EXCEPT !.verdict = "max-connections",
                                            !.client = "ended"],
        F |-> F, res |-> NoResult, active |-> active]
  ELSE
    LET c0 == [NewConn("tcp", ip) EXCEPT !.counted = TRUE,
                                         !.timer = (cfg.connectionTimeout > 0)]
        r  == connect(cfg, F, c0, t)
    IN  [conn |-> r.conn, F |-> r.F, res |-> r.res, active |-> active + 1]

\* cleanup destroying the client socket only
cleanup_ClientOnly(c, reason) ==
  IF c.isCleanedUp THEN c
  ELSE [c EXCEPT !.isCleanedUp = TRUE, !.reason = reason,
                 !.reports = @ + 1,
                 !.reported = <<c.bytesFromClient, c.bytesFromBackend>>,
                 !.client = Destroy(@)]

\* cleanup without the isCleanedUp guard
cleanup_NoGuard(c, reason) ==
  [c EXCEPT !.isCleanedUp = TRUE, !.reason = reason,
            !.reports = @ + 1,
            !.reported = <<c.bytesFromClient, c.bytesFromBackend>>,
            !.client = Destroy(@), !.backend = Destroy(@)]

\* ProxyConnection.cleanup(reason): the guard, the report (the "Connection
\* closed" line with the reason and both counters), the two destroys
cleanup(c, reason) ==
  IF c.isCleanedUp THEN c
  ELSE [c EXCEPT !.isCleanedUp = TRUE, !.reason = reason,
                 !.reports = @ + 1,
                 !.reported = <<c.bytesFromClient, c.bytesFromBackend>>,
                 !.client = Destroy(@), !.backend = Destroy(@)]

\* a chunk is its length in bytes
Chunks == {1, 2}

\* the client's 'data' listener forgetting the chunk that fills the buffer
clientData_DropWhenFull(c, data, full) ==
  LET d == [c EXCEPT !.bytesFromClient = @ + data, !.rxC = Append(@, data)]
  IN  IF d.backend # "none" /\ ~Destroyed(d.backend)
      THEN IF full THEN [d EXCEPT !.pausedC = TRUE, !.needDrainB = TRUE]
           ELSE [d EXCEPT !.txB = Append(@, data)]
      ELSE d

\* the client's 'data' listener not pausing the client when write() returns false
clientData_NoPause(c, data, full) ==
  LET d == [c EXCEPT !.bytesFromClient = @ + data, !.rxC = Append(@, data)]
  IN  IF d.backend # "none" /\ ~Destroyed(d.backend)
      THEN [d EXCEPT !.txB = Append(@, data), !.needDrainB = @ \/ full]
      ELSE d

\* setupPipes, the client's 'data' listener: count, then write to the backend
\* socket unless it is missing or destroyed; full: write() returned false
clientData(c, data, full) ==
  LET d == [c EXCEPT !.bytesFromClient = @ + data, !.rxC = Append(@, data)]
  IN  IF d.backend # "none" /\ ~Destroyed(d.backend)
      THEN [d EXCEPT !.txB = Append(@, data), !.pausedC = @ \/ full,
                     !.needDrainB = @ \/ full]
      ELSE d

\* the backend's 'data' listener adding to the client's counter
backendData_WrongCounter(c, data, full) ==
  LET d == [c EXCEPT !.bytesFromClient = @ + data, !.rxB = Append(@, data)]
  IN  IF ~Destroyed(d.client)
      THEN [d EXCEPT !.txC = Append(@, data), !.pausedB = @ \/ full,
                     !.needDrainC = @ \/ full]
      ELSE d

\* setupPipes, the backend's 'data' listener
backendData(c, data, full) ==
  LET d == [c EXCEPT !.bytesFromBackend = @ + data, !.rxB = Append(@, data)]
  IN  IF ~Destroyed(d.client)
      THEN [d EXCEPT !.txC = Append(@, data), !.pausedB = @ \/ full,
                     !.needDrainC = @ \/ full]
      ELSE d

\* socket.writable: connected or connecting, not ended and not destroyed
Writable(sock) == sock \in {"open", "connecting"}

\* ssh.js, the stream's 'data' listener
sshStreamData(c, data, full) ==
  LET d == [c EXCEPT !.bytesFromClient = @ + data, !.rxC = Append(@, data)]
  IN  IF ~Writable(d.backend) \/ Destroyed(d.backend)
      THEN d
      ELSE [d EXCEPT !.txB = Append(@, data), !.pausedC = @ \/ full,
                     !.needDrainB = @ \/ full]

\* ssh.js, the backend socket's 'data' listener
sshBackendData(c, data, full) ==
  LET d == [c EXCEPT !.bytesFromBackend = @ + data, !.rxB = Append(@, data)]
  IN  IF ~Writable(d.stream) \/ Destroyed(d.stream)
      THEN d
      ELSE [d EXCEPT !.txC = Append(@, data), !.pausedB = @ \/ full,
                     !.needDrainC = @ \/ full]

\* a request on the session channel and what the program answered
Request(type, info, reply) == [type |-> type, info |-> info, reply |-> reply]

\* the session's 'pty' handler: accept(); info.term is logged
sshPty(c, term) ==
  [c EXCEPT !.requests = Append(@, Request("pty", term, "accept"))]

\* no 'env' listener is registered on the session: the variable reaches no
\* code of the program
sshEnv(c, name, value) ==
  [c EXCEPT !.requests = Append(@, Request("env", <<name>> \o value, "unheard"))]

\* the session's 'window-change' handler: a debug line
sshWindowChange(c) ==
  [c EXCEPT !.requests = Append(@, Request("window-change", <<>>, "logged"))]

\* the 'exec' handler rejecting the command and ending the shell of the session
sshExec_EndsShell(c, command) ==
  [c EXCEPT !.requests = Append(@, Request("exec", <<command>>, "reject")),
            !.stream = IF @ = "open" THEN "ended" ELSE @,
            !.backend = Destroy(@)]

\* the session's 'exec' handler: reject()
sshExec(c, command) ==
  [c EXCEPT !.requests = Append(@, Request("exec", <<command>>, "reject"))]

\* the 'shell' handler refusing a shell that no PTY request preceded
sshShell_NeedsPty(cfg, c) ==
  IF \E k \in 1..Len(c.requests) : c.requests[k].type = "pty"
  THEN [c EXCEPT !.phase = "shell", !.stream = "open", !.backend = "connecting",
                 !.port = cfg.backendPort, !.dials = @ + 1,
                 !.requests = Append(@, Request("shell", <<>>, "accept"))]
  ELSE [c EXCEPT !.requests = Append(@, Request("shell", <<>>, "reject"))]

\* the session's 'shell' handler: accept() gives the stream, a new socket is
\* connected to config.backendPort
sshShell(cfg, c) ==
  [c EXCEPT !.phase = "shell", !.stream = "open", !.backend = "connecting",
            !.port = cfg.backendPort, !.dials = @ + 1,
            !.requests = Append(@, Request("shell", <<>>, "accept"))]

\* the connection handler logging a denial and going on with the handshake
sshConnection_LogsDenial(cfg, F, remoteAddress, t) ==
  LET clientIP == IF IsInvalidIP(remoteAddress) THEN Text("unknown") ELSE remoteAddress
      c0       == NewConn("ssh", clientIP)
      accessCheck == shouldAllowConnection(cfg, F, clientIP, t)
  IN  IF ~accessCheck.res.allowed
      THEN [conn |-> [c0 EXCEPT !.verdict = "ip-filter", !.onError = "log",
                                !.phase = "handshake"],
            F |-> accessCheck.F, res |-> accessCheck.res]
      ELSE [conn |-> [c0 EXCEPT !.verdict = "admitted", !.onError = "log",
                                !.whitelisted = accessCheck.res.whitelisted,
                                !.phase = "handshake"],
            F |-> accessCheck.F, res |-> accessCheck.res]

\* the connection handler asking a filter of its own, not the shared instance
sshConnection_OwnFilter(cfg, F, remoteAddress, t) ==
  LET clientIP == IF IsInvalidIP(remoteAddress) THEN Text("unknown") ELSE remoteAddress
      c0       == NewConn("ssh", clientIP)
      accessCheck == shouldAllowConnection(
                       cfg, [connectionAttempts |-> EmptyMap, blockedIPs |-> EmptyMap],
                       clientIP, t)
  IN  IF ~accessCheck.res.allowed
      THEN [conn |-> [c0 EXCEPT !.verdict = "ip-filter", !.client = "ended"],
            F |-> F, res |-> accessCheck.res]
      ELSE [conn |-> [c0 EXCEPT !.verdict = "admitted", !.onError = "log",
                                !.whitelisted = accessCheck.res.whitelisted,
                                !.phase = "handshake"],
            F |-> F, res |-> accessCheck.res]

\* createSSHServer, the connection handler: [conn, F, res]
sshConnection(cfg, F, remoteAddress, t) ==
  LET clientIP == IF IsInvalidIP(remoteAddress) THEN Text("unknown") ELSE remoteAddress
      c0       == NewConn("ssh", clientIP)
      accessCheck == shouldAllowConnection(cfg, F, clientIP, t)
  IN  IF ~accessCheck.res.allowed
      THEN [conn |-> [c0 EXCEPT !.verdict = "ip-filter", !.client = "ended"],
            F |-> accessCheck.F, res |-> accessCheck.res]
      ELSE [conn |-> [c0 EXCEPT !.verdict = "admitted", !.onError = "log",
                                !.whitelisted = accessCheck.res.whitelisted,
                                !.phase = "handshake"],
            F |-> accessCheck.F, res |-> accessCheck.res]

\* the 'authentication' handler accepting a password attempt only when a
\* password was typed
authentication_NeedsPassword(ctx) ==
  IF (ctx.method = "password" /\ ctx.password # "") \/ ctx.method = "none"
  THEN [reply |-> "accept", methods |-> <<>>]
  ELSE [reply |-> "reject", methods |-> <<"password", "none">>]

\* the 'authentication' handler: ctx.accept(), or ctx.reject(['password',
\* 'none']); ctx is {method, username, password}
authentication(ctx) ==
  IF ctx.method = "password" \/ ctx.method = "none"
  THEN [reply |-> "accept", methods |-> <<>>]
  ELSE [reply |-> "reject", methods |-> <<"password", "none">>]

\* the 'authentication' handler: the methods it accepts
sshAuthAccepts(method) ==
  authentication([method |-> method, username |-> "", password |-> ""]).reply = "accept"

\* ---------------------------------------------------------- configurations
\* The settings of one run: config.js, the two list files, the GeoIP
\* database (country), the addresses the filter is asked about (peers) and
\* those of them that connect to the listeners (arrivals).
\* encodingDetection and the two ports that go with it are the settings
\* connect and getBackendPortForEncoding read from config.
\* Times are in seconds.  A host without IPv6 reports IPv4 peers as a.b.c.d,
\* a dual-stack host reports them as ::ffff:a.b.c.d.
\* IPv4-only host, blocklist with a CIDR, block shorter than the window
CfgA ==
  [name |-> "A",
   whitelist |-> {}, blocklist |-> {Cidr(V4(10, 0, 0, 0), 24)},
   rateLimitEnabled |-> TRUE, maxConnectionsPerWindow |-> 2,
   rateLimitWindowMs |-> 3, rateLimitBlockDurationMs |-> 1,
   maxConnections |-> 2, connectionTimeout |-> 1, sshEnabled |-> TRUE,
   backendPort |-> 2323, encodingDetection |-> FALSE,
   backendPortUTF8 |-> 2324, backendPortCP437 |-> 2325,
   geoEnabled |-> FALSE, blockedCountries |-> {}, blockUnknownCountries |-> FALSE,
   country |-> [ip \in {} |-> NoCountry],
   peers |-> {V4(198, 51, 100, 9), V4(10, 0, 0, 50), V4(10, 0, 1, 1)},
   arrivals |-> {V4(198, 51, 100, 9), V4(10, 0, 0, 50)}]

\* dual-stack host, whitelist over blocklist and country, block as long as the window
CfgB ==
  [name |-> "B",
   whitelist |-> {Cidr(V4(10, 0, 0, 0), 8)}, blocklist |-> {V4(10, 1, 2, 3)},
   rateLimitEnabled |-> TRUE, maxConnectionsPerWindow |-> 1,
   rateLimitWindowMs |-> 2, rateLimitBlockDurationMs |-> 2,
   maxConnections |-> 1, connectionTimeout |-> 1, sshEnabled |-> TRUE,
   backendPort |-> 2323, encodingDetection |-> TRUE,
   backendPortUTF8 |-> 2324, backendPortCP437 |-> 2323,
   geoEnabled |-> TRUE, blockedCountries |-> {"CN"}, blockUnknownCountries |-> TRUE,
   country |-> [ip \in {V4(10, 1, 2, 3), V4(203, 0, 113, 7)} |->
                  IF ip = V4(10, 1, 2, 3) THEN "CN" ELSE "US"],
   peers |-> {Mapped(V4(10, 1, 2, 3)), Mapped(V4(203, 0, 113, 7)),
              Mapped(V4(192, 0, 2, 1))},
   arrivals |-> {Mapped(V4(10, 1, 2, 3)), Mapped(V4(192, 0, 2, 1))}]

\* dual-stack host, blocklist entries written in the logged (mapped) form,
\* peers without an address, no idle timeout
CfgC ==
  [name |-> "C",
   whitelist |-> {}, blocklist |-> {Mapped(V4(198, 51, 100, 9)), Text("2001:db8::1")},
   rateLimitEnabled |-> TRUE, maxConnectionsPerWindow |-> 1,
   rateLimitWindowMs |-> 2, rateLimitBlockDurationMs |-> 3,
   maxConnections |-> 2, connectionTimeout |-> 0, sshEnabled |-> TRUE,
   backendPort |-> 2323, encodingDetection |-> TRUE,
   backendPortUTF8 |-> 2324, backendPortCP437 |-> 2325,
   geoEnabled |-> FALSE, blockedCountries |-> {"CN"}, blockUnknownCountries |-> TRUE,
   country |-> [ip \in {} |-> NoCountry],
   peers |-> {Mapped(V4(198, 51, 100, 9)), Mapped(V4(203, 0, 113, 7)),
              Text("2001:db8::1"), Undefined},
   arrivals |-> {Mapped(V4(203, 0, 113, 7)), Undefined}]

Configs == {CfgA, CfgB, CfgC}
ConfigNamed(n) == CHOOSE c \in Configs : c.name = n

\* ------------------------------------------------------------- supervisor
\* process.exitCode while the process has not exited
NoExit == 0 - 1

\* BBSFirewall.start: the TCP listener, the SSH listener when it is enabled,
\* no shutdown requested yet.  A listener is "listening", "closing" (close()
\* was called, it accepts nothing and waits for its connections) or "closed".
start(cfg) ==
  [server |-> "listening",
   sshServer |-> IF cfg.sshEnabled THEN "listening" ELSE "none",
   shutdowns |-> <<>>,
   exitCode |-> NoExit]

\* net.Server.close(): the listener stops listening
close(server) == IF server = "listening" THEN "closing" ELSE server

\* shutdown with serversToClose counting the TCP listener only
shutdown_ForgetsSSH(p) ==
  LET serversToClose == IF p.server # "none" THEN 1 ELSE 0
  IN  [p EXCEPT !.server = close(@),
                !.sshServer = close(@),
                !.shutdowns = Append(@, [serversToClose |-> serversToClose,
                                         serversClosed |-> 0,
                                         server |-> p.server # "none",
                                         sshServer |-> p.sshServer # "none",
                                         timer |-> serversToClose # 0]),
                !.exitCode = IF serversToClose = 0 THEN 0 ELSE @]

\* the signal handler of setupGracefulShutdown: each started listener is
\* closed with a callback that counts it, and the 10 s timer is armed.  One
\* entry of shutdowns is one run of the handler: its two counters, the
\* callbacks still to be called (server, sshServer) and its timer.
shutdown(p) ==
  LET serversToClose == (IF p.server # "none" THEN 1 ELSE 0)
                          + (IF p.sshServer # "none" THEN 1 ELSE 0)
  IN  [p EXCEPT !.server = close(@),
                !.sshServer = close(@),
                !.shutdowns = Append(@, [serversToClose |-> serversToClose,
                                         serversClosed |-> 0,
                                         server |-> p.server # "none",
                                         sshServer |-> p.sshServer # "none",
                                         timer |-> serversToClose # 0]),
                !.exitCode = IF serversToClose = 0 THEN 0 ELSE @]

\* 'close' of listener which ("server" or "sshServer"): the callbacks given
\* to close() run in the order they were given; each counts the listener and
\* exits with 0 when its count is complete
serverClosed(p, which) ==
  LET sds == [k \in DOMAIN p.shutdowns |->
                IF p.shutdowns[k][which]
                THEN [p.shutdowns[k] EXCEPT ![which] = FALSE,
                                            !.serversClosed = @ + 1]
                ELSE p.shutdowns[k]]
  IN  [p EXCEPT ![which] = "closed",
                !.shutdowns = sds,
                !.exitCode =
                  IF \E k \in DOMAIN sds :
                       /\ p.shutdowns[k][which]
                       /\ sds[k].serversClosed = sds[k].serversToClose
                  THEN 0 ELSE @]

\* the 10 s timer of run k of the handler fires
forceShutdown(p, k) ==
  [p EXCEPT !.shutdowns[k].timer = FALSE, !.exitCode = 1]

\* ------------------------------------------------------------------ state
VARIABLES
  run,                 \* which configuration the process was started with
  now,                 \* Date.now()
  connectionAttempts,  \* IPFilter.connectionAttempts: clean IP -> timestamps
  blockedIPs,          \* IPFilter.blockedIPs: clean IP -> {blockedUntil, reason, blockedAt}
  calls,               \* history: the shouldAllowConnection calls made so far
  activeConnections,   \* BBSFirewall.activeConnections
  conns,               \* the connections accepted so far, in order of arrival
  alive,               \* FALSE once an uncaught exception or process.exit has
                       \* ended the process
  proc,                \* the supervisor: its listeners, the runs of the shutdown
                       \* handler, the exit code
  args,                \* the arguments of the function call a function check follows
  ret                  \* what that call returned, <<>> while it has not returned

\* config.js's config object and the filter's lists, fixed at start
config == ConfigNamed(run)

callVars == <<args, ret>>
connVars == <<activeConnections, conns, alive, proc, callVars>>
vars == <<run, now, connectionAttempts, blockedIPs, calls, activeConnections,
          conns, alive, proc, args, ret>>

FilterState == [connectionAttempts |-> connectionAttempts, blockedIPs |-> blockedIPs]

\* one entry of the history: the call, its result, the state before and after
Call(ip, t, res, pre, post, via) ==
  [ip |-> ip, t |-> t, res |-> res, pre |-> pre, post |-> post, via |-> via]

Init ==
  /\ run \in {c.name : c \in Configs}
  /\ now = 0
  /\ connectionAttempts = EmptyMap
  /\ blockedIPs = EmptyMap
  /\ calls = <<>>
  /\ activeConnections = 0
  /\ conns = <<>>
  /\ alive = TRUE
  /\ proc = start(config)
  /\ args = <<>>
  /\ ret = <<>>

\* ---------------------------------------------------------- filter actions
\* time passes
Tick ==
  /\ now < MaxTime
  /\ now' = now + 1
  /\ UNCHANGED <<run, connectionAttempts, blockedIPs, calls, connVars>>

\* the janitor's timer fires
Janitor ==
  /\ \E F \in {cleanupOldAttempts(config, FilterState, now)} :
         /\ connectionAttempts' = F.connectionAttempts
         /\ blockedIPs' = F.blockedIPs
  /\ UNCHANGED <<run, now, calls, connVars>>

\* a caller asks the filter about ip
ShouldAllow(ip) ==
  /\ Len(calls) < MaxCalls
  /\ \E r \in {shouldAllowConnection(config, FilterState, ip, now)} :
         /\ connectionAttempts' = r.F.connectionAttempts
         /\ blockedIPs' = r.F.blockedIPs
         /\ calls' = Append(calls, Call(ip, now, r.res, FilterState, r.F, "api"))
  /\ UNCHANGED <<run, now, connVars>>

NextFilter ==
  \/ Tick
  \/ Janitor
  \/ \E ip \in config.peers : ShouldAllow(ip)

SpecFilter == Init /\ [][NextFilter]_vars


\* ------------------------------------------------------ front-end actions
\* what a filter call adds to the history (nothing when it was not asked)
Logged(ip, r, via) ==
  IF r.res = NoResult THEN calls
  ELSE Append(calls, Call(ip, now, r.res, FilterState, r.F, via))

\* the TCP listener accepts a socket whose remoteAddress is ip, the n-th
\* connection of the behaviour at most
TCPAcceptUpTo(ip, n) ==
  /\ alive
  /\ proc.server = "listening"
  /\ Len(conns) < n
  /\ \E r \in {handleNewConnection(config, FilterState, activeConnections, ip, now)} :
         /\ calls' = Logged(ip, r, "tcp")
         /\ conns' = Append(conns, [r.conn EXCEPT !.call =
                                      IF r.res = NoResult THEN 0 ELSE Len(calls) + 1])
         /\ connectionAttempts' = r.F.connectionAttempts
         /\ blockedIPs' = r.F.blockedIPs
         /\ activeConnections' = r.active
  /\ UNCHANGED <<run, now, alive, proc, callVars>>

TCPAccept(ip) == TCPAcceptUpTo(ip, MaxConns)

\* the SSH listener accepts a transport whose socket's remoteAddress is ip
SSHAcceptUpTo(ip, n) ==
  /\ alive
  /\ proc.sshServer = "listening"
  /\ Len(conns) < n
  /\ \E r \in {sshConnection(config, FilterState, ip, now)} :
         /\ calls' = Logged(r.conn.ip, r, "ssh")
         /\ conns' = Append(conns, [r.conn EXCEPT !.call = Len(calls) + 1])
         /\ connectionAttempts' = r.F.connectionAttempts
         /\ blockedIPs' = r.F.blockedIPs
  /\ UNCHANGED <<run, now, activeConnections, alive, proc, callVars>>

SSHAccept(ip) == SSHAcceptUpTo(ip, MaxConns)

Update(i, c) == conns' = [conns EXCEPT ![i] = c]

\* history: ev is the first terminating event of session c unless one came before
Mark(c, ev) ==
  IF c.verdict = "admitted" /\ c.first = "" THEN [c EXCEPT !.first = ev] ELSE c
Frame == UNCHANGED <<run, now, connectionAttempts, blockedIPs, calls, proc, callVars>>

\* the idle timer of a TCP client socket fires: the 'timeout' handler
ClientTimeout(i) ==
  /\ alive
  /\ conns[i].kind = "tcp" /\ conns[i].timer
  /\ conns[i].client \in {"open", "ended"}
  /\ Update(i, [Mark(conns[i], "timeout") EXCEPT !.client = "destroyed"])
  /\ Frame /\ UNCHANGED <<activeConnections, alive>>

\* ClientError with an 'error' listener that decrements the count
ClientError_Decrements(i) ==
  /\ alive
  /\ conns[i].kind = "tcp"
  /\ conns[i].client \in {"open", "ended"}
  /\ LET c == [Mark(conns[i], "client-error") EXCEPT !.client = "destroyed"]
     IN  /\ Update(i, IF c.onError = "cleanup" THEN cleanup(c, "client-error") ELSE c)
         /\ alive' = (c.onError # "none")
  /\ activeConnections' = IF conns[i].counted THEN activeConnections - 1
                          ELSE activeConnections
  /\ Frame

\* an error on a TCP client socket: the socket is destroyed and 'error' is
\* emitted; without a listener the error is thrown and the process ends
ClientError(i) ==
  /\ alive
  /\ conns[i].kind = "tcp"
  /\ conns[i].client \in {"open", "ended"}
  /\ LET c == [Mark(conns[i], "client-error") EXCEPT !.client = "destroyed"]
     IN  /\ Update(i, IF c.onError = "cleanup" THEN cleanup(c, "client-error") ELSE c)
         /\ alive' = (c.onError # "none")
  /\ Frame /\ UNCHANGED activeConnections

\* 'close' of a TCP client socket, after destroy() or after the peer closed:
\* the listeners of setupCloseHandlers, then the one of handleNewConnection
ClientClose(i) ==
  /\ alive
  /\ conns[i].kind = "tcp"
  /\ conns[i].client \in {"open", "ended", "destroyed"}
  /\ LET c == [Mark(conns[i], "client-close") EXCEPT !.client = "closed"]
     IN  /\ Update(i, IF c.verdict = "admitted" THEN cleanup(c, "client-close") ELSE c)
         /\ activeConnections' =
              IF c.counted THEN activeConnections - 1 ELSE activeConnections
  /\ Frame /\ UNCHANGED alive

\* the backend accepted the dial
BackendConnected(i) ==
  /\ alive
  /\ conns[i].backend = "connecting"
  /\ Update(i, [conns[i] EXCEPT !.backend = "open"])
  /\ Frame /\ UNCHANGED <<activeConnections, alive>>

\* BackendError with the 'error' listener attached in the connect callback:
\* a failed dial finds no listener and the error is thrown
BackendError_ListensOnceConnected(i) ==
  /\ alive
  /\ conns[i].backend \in {"connecting", "open"}
  /\ LET c == [Mark(conns[i], "backend-error") EXCEPT
                 !.backend = "destroyed",
                 !.dialFailed = (conns[i].backend = "connecting")]
     IN  /\ Update(i, IF c.dialFailed THEN c
                      ELSE IF c.kind = "tcp" THEN cleanup(c, "backend-error")
                      ELSE [c EXCEPT !.stream = IF @ = "open" THEN "ended" ELSE @])
         /\ alive' = ~c.dialFailed
  /\ Frame /\ UNCHANGED activeConnections

\* BackendError with a listener that logs the error and leaves the cleanup
\* to the 'close' listener
BackendError_LogsOnly(i) ==
  /\ alive
  /\ conns[i].backend \in {"connecting", "open"}
  /\ Update(i, [Mark(conns[i], "backend-error") EXCEPT
                  !.backend = "destroyed",
                  !.dialFailed = (conns[i].backend = "connecting")])
  /\ Frame /\ UNCHANGED <<activeConnections, alive>>

\* 'error' of the backend socket (a failed dial or a reset): the listener of
\* setupErrorHandlers (TCP) or the one that ends the shell stream (SSH)
BackendError(i) ==
  /\ alive
  /\ conns[i].backend \in {"connecting", "open"}
  /\ LET c == [Mark(conns[i], "backend-error") EXCEPT
                 !.backend = "destroyed",
                 !.dialFailed = (conns[i].backend = "connecting")]
     IN  Update(i, IF c.kind = "tcp" THEN cleanup(c, "backend-error")
                   ELSE [c EXCEPT !.stream = IF @ = "open" THEN "ended" ELSE @])
  /\ Frame /\ UNCHANGED <<activeConnections, alive>>

\* 'close' of the backend socket, after destroy() or after the BBS closed
BackendClose(i) ==
  /\ alive
  /\ conns[i].backend \in {"open", "destroyed"}
  /\ LET c == [Mark(conns[i], "backend-close") EXCEPT !.backend = "closed"]
     IN  Update(i, IF c.kind = "tcp" THEN cleanup(c, "backend-close")
                   ELSE [c EXCEPT !.stream = IF @ = "open" THEN "ended" ELSE @])
  /\ Frame /\ UNCHANGED <<activeConnections, alive>>

\* an SSH authentication request: password and none are accepted, then the
\* transport is ready; another method is rejected and the client may retry
SSHAuthentication(i, method) ==
  /\ alive
  /\ conns[i].kind = "ssh" /\ conns[i].phase = "handshake"
  /\ conns[i].client = "open"
  /\ Update(i, [conns[i] EXCEPT !.phase =
                  IF sshAuthAccepts(method) THEN "ready" ELSE @])
  /\ Frame /\ UNCHANGED <<activeConnections, alive>>

\* the authenticated client opens a session channel: the 'session' handler
\* accepts it and registers the handlers of its requests
SSHSession(i) ==
  /\ alive
  /\ conns[i].kind = "ssh" /\ conns[i].phase = "ready"
  /\ conns[i].client = "open"
  /\ Update(i, [conns[i] EXCEPT !.phase = "session"])
  /\ Frame /\ UNCHANGED <<activeConnections, alive>>

\* the session channel can take a request: it is open, and no more than
\* MaxRequests requests are followed
ChannelOpen(c) ==
  /\ c.kind = "ssh" /\ c.client = "open"
  /\ \/ c.phase = "session"
     \/ c.phase = "shell" /\ c.stream \in {"open", "ended"}
  /\ Len(c.requests) < MaxRequests

\* a shell is requested on the session channel (a channel is given to one
\* shell only): the stream is accepted and the backend dialled
SSHShell(i) ==
  /\ alive
  /\ ChannelOpen(conns[i]) /\ conns[i].phase = "session"
  /\ Update(i, sshShell(config, conns[i]))
  /\ Frame /\ UNCHANGED <<activeConnections, alive>>

\* a PTY is requested on the session channel, for terminal type term
SSHPty(i, term) ==
  /\ alive
  /\ ChannelOpen(conns[i])
  /\ Update(i, sshPty(conns[i], term))
  /\ Frame /\ UNCHANGED <<activeConnections, alive>>

\* the client sends an environment variable on the session channel
SSHEnv(i, name, value) ==
  /\ alive
  /\ ChannelOpen(conns[i])
  /\ Update(i, sshEnv(conns[i], name, value))
  /\ Frame /\ UNCHANGED <<activeConnections, alive>>

\* the client reports a new window size
SSHWindowChange(i) ==
  /\ alive
  /\ ChannelOpen(conns[i])
  /\ Update(i, sshWindowChange(conns[i]))
  /\ Frame /\ UNCHANGED <<activeConnections, alive>>

\* the client asks for a command to be run on the session channel
SSHExec(i, command) ==
  /\ alive
  /\ ChannelOpen(conns[i])
  /\ Update(i, sshExec(conns[i], command))
  /\ Frame /\ UNCHANGED <<activeConnections, alive>>

\* 'error' of the shell stream: the backend socket is destroyed; the stream
\* that failed is destroyed and its 'close' follows
SSHStreamError(i) ==
  /\ alive
  /\ conns[i].kind = "ssh"
  /\ conns[i].stream \in {"open", "ended"}
  /\ Update(i, [Mark(conns[i], "stream-error") EXCEPT
                  !.stream = "destroyed", !.backend = Destroy(@)])
  /\ Frame /\ UNCHANGED <<activeConnections, alive>>

\* SSHStreamClose leaving the backend socket as it is
SSHStreamClose_LeavesBackend(i) ==
  /\ alive
  /\ conns[i].kind = "ssh"
  /\ conns[i].stream \in {"open", "ended", "destroyed"}
  /\ Update(i, [Mark(conns[i], "stream-close") EXCEPT
                  !.stream = "closed",
                  !.reports = @ + 1,
                  !.reported = <<conns[i].bytesFromClient,
                                 conns[i].bytesFromBackend>>])
  /\ Frame /\ UNCHANGED <<activeConnections, alive>>

\* 'close' of the shell stream: the counters are reported and the backend
\* socket is destroyed
SSHStreamClose(i) ==
  /\ alive
  /\ conns[i].kind = "ssh"
  /\ conns[i].stream \in {"open", "ended", "destroyed"}
  /\ Update(i, [Mark(conns[i], "stream-close") EXCEPT
                  !.stream = "closed", !.backend = Destroy(@),
                  !.reports = @ + 1,
                  !.reported = <<conns[i].bytesFromClient,
                                 conns[i].bytesFromBackend>>])
  /\ Frame /\ UNCHANGED <<activeConnections, alive>>

\* the SSH transport closes (the peer went away, or after client.end()); a
\* transport closes its channels first
SSHClientClose(i) ==
  /\ alive
  /\ conns[i].kind = "ssh"
  /\ conns[i].client \in {"open", "ended"}
  /\ conns[i].stream \notin {"open", "ended"}
  /\ Update(i, [Mark(conns[i], "client-close") EXCEPT !.client = "closed"])
  /\ Frame /\ UNCHANGED <<activeConnections, alive>>

Next ==
  \/ \E ip \in config.arrivals : TCPAccept(ip)
  \/ \E ip \in config.arrivals : SSHAccept(ip)
  \/ \E i \in 1..Len(conns) : ClientTimeout(i)
  \/ \E i \in 1..Len(conns) : ClientError(i)
  \/ \E i \in 1..Len(conns) : ClientClose(i)
  \/ \E i \in 1..Len(conns) : BackendConnected(i)
  \/ \E i \in 1..Len(conns) : BackendError(i)
  \/ \E i \in 1..Len(conns) : BackendClose(i)
  \/ \E i \in 1..Len(conns), m \in {"password", "none", "publickey"} :
       SSHAuthentication(i, m)
  \/ \E i \in 1..Len(conns) : SSHSession(i)
  \/ \E i \in 1..Len(conns) : SSHShell(i)
  \/ \E i \in 1..Len(conns) : SSHStreamClose(i)
  \/ \E i \in 1..Len(conns) : SSHClientClose(i)

Spec == Init /\ [][Next]_vars

\* ------------------------------------------------------------ the byte pump
\* 'data' events delivered so far to the listeners of session i
Delivered(i) == Len(conns[i].rxC) + Len(conns[i].rxB)

\* a chunk arrives from the client of a TCP session: the listener of setupPipes
ClientData(i, data, full) ==
  /\ alive
  /\ Delivered(i) < MaxChunks
  /\ conns[i].kind = "tcp" /\ conns[i].verdict = "admitted"
  /\ conns[i].client = "open" /\ ~conns[i].pausedC
  /\ Update(i, clientData(conns[i], data, full))
  /\ Frame /\ UNCHANGED <<activeConnections, alive>>

\* a chunk arrives from the backend of a TCP session
BackendData(i, data, full) ==
  /\ alive
  /\ Delivered(i) < MaxChunks
  /\ conns[i].kind = "tcp"
  /\ conns[i].backend = "open" /\ ~conns[i].pausedB
  /\ Update(i, backendData(conns[i], data, full))
  /\ Frame /\ UNCHANGED <<activeConnections, alive>>

\* a chunk arrives on the shell stream of an SSH session
SSHStreamData(i, data, full) ==
  /\ alive
  /\ Delivered(i) < MaxChunks
  /\ conns[i].kind = "ssh" /\ conns[i].client = "open"
  /\ conns[i].stream = "open" /\ ~conns[i].pausedC
  /\ Update(i, sshStreamData(conns[i], data, full))
  /\ Frame /\ UNCHANGED <<activeConnections, alive>>

\* a chunk arrives from the backend of an SSH session
SSHBackendData(i, data, full) ==
  /\ alive
  /\ Delivered(i) < MaxChunks
  /\ conns[i].kind = "ssh"
  /\ conns[i].backend = "open" /\ ~conns[i].pausedB
  /\ Update(i, sshBackendData(conns[i], data, full))
  /\ Frame /\ UNCHANGED <<activeConnections, alive>>

\* 'drain' of the backend socket: the once-listener resumes the client side
\* (ssh.js: unless the stream is destroyed)
BackendDrain(i) ==
  /\ alive
  /\ conns[i].needDrainB /\ conns[i].backend = "open"
  /\ Update(i, [conns[i] EXCEPT
                  !.needDrainB = FALSE,
                  !.pausedC = @ /\ conns[i].kind = "ssh" /\ Destroyed(conns[i].stream)])
  /\ Frame /\ UNCHANGED <<activeConnections, alive>>

\* 'drain' of the client socket or of the shell stream: the once-listener
\* resumes the backend socket (ssh.js: unless it is destroyed)
ClientDrain(i) ==
  /\ alive
  /\ conns[i].needDrainC
  /\ IF conns[i].kind = "tcp" THEN conns[i].client = "open"
                              ELSE conns[i].stream = "open"
  /\ Update(i, [conns[i] EXCEPT
                  !.needDrainC = FALSE,
                  !.pausedB = @ /\ conns[i].kind = "ssh" /\ Destroyed(conns[i].backend)])
  /\ Frame /\ UNCHANGED <<activeConnections, alive>>

\* SpecPump follows the first connection a process accepts through its
\* events and its 'data' and 'drain' events
NextPump ==
  \/ \E ip \in config.arrivals : conns = <<>> /\ TCPAccept(ip)
  \/ \E ip \in config.arrivals : conns = <<>> /\ SSHAccept(ip)
  \/ \E i \in 1..Len(conns) : ClientTimeout(i)
  \/ \E i \in 1..Len(conns) : ClientError(i)
  \/ \E i \in 1..Len(conns) : ClientClose(i)
  \/ \E i \in 1..Len(conns) : BackendConnected(i)
  \/ \E i \in 1..Len(conns) : BackendError(i)
  \/ \E i \in 1..Len(conns) : BackendClose(i)
  \/ \E i \in 1..Len(conns), m \in {"password", "none", "publickey"} :
       SSHAuthentication(i, m)
  \/ \E i \in 1..Len(conns) : SSHSession(i)
  \/ \E i \in 1..Len(conns) : SSHShell(i)
  \/ \E i \in 1..Len(conns) : SSHStreamClose(i)
  \/ \E i \in 1..Len(conns) : SSHClientClose(i)
  \/ \E i \in 1..Len(conns), d \in Chunks, full \in BOOLEAN :
       ClientData(i, d, full)
  \/ \E i \in 1..Len(conns), d \in Chunks, full \in BOOLEAN :
       BackendData(i, d, full)
  \/ \E i \in 1..Len(conns), d \in Chunks, full \in BOOLEAN :
       SSHStreamData(i, d, full)
  \/ \E i \in 1..Len(conns), d \in Chunks, full \in BOOLEAN :
       SSHBackendData(i, d, full)
  \/ \E i \in 1..Len(conns) : BackendDrain(i)
  \/ \E i \in 1..Len(conns) : ClientDrain(i)
  \/ \E i \in 1..Len(conns) : SSHStreamError(i)

SpecPump == Init /\ [][NextPump]_vars

\* ------------------------------------------------------ the session channel
\* what the clients of SpecSSH present
TermTypes == {<<"xterm", "-256color">>, <<"ansi">>}
LangValues == {<<"en_US", ".", "UTF-8">>, <<"C">>}

\* SpecSSH follows the first SSH connection a process accepts through the
\* requests on its session channel, the chunks of its shell (of one byte,
\* none filling a buffer) and its end
NextSSH ==
  \/ \E ip \in config.arrivals : conns = <<>> /\ SSHAccept(ip)
  \/ \E i \in 1..Len(conns), m \in {"password", "publickey"} :
       SSHAuthentication(i, m)
  \/ \E i \in 1..Len(conns) : SSHSession(i)
  \/ \E i \in 1..Len(conns), term \in TermTypes : SSHPty(i, term)
  \/ \E i \in 1..Len(conns), value \in LangValues : SSHEnv(i, "LANG", value)
  \/ \E i \in 1..Len(conns) : SSHWindowChange(i)
  \/ \E i \in 1..Len(conns) : SSHExec(i, "ls")
  \/ \E i \in 1..Len(conns) : SSHShell(i)
  \/ \E i \in 1..Len(conns) : BackendConnected(i)
  \/ \E i \in 1..Len(conns) : BackendError(i)
  \/ \E i \in 1..Len(conns) : BackendClose(i)
  \/ \E i \in 1..Len(conns) : SSHStreamData(i, 1, FALSE)
  \/ \E i \in 1..Len(conns) : SSHBackendData(i, 1, FALSE)
  \/ \E i \in 1..Len(conns) : SSHStreamClose(i)
  \/ \E i \in 1..Len(conns) : SSHClientClose(i)

SpecSSH == Init /\ [][NextSSH]_vars

\* ------------------------------------------------- reading the call history
KeyOf(e) == normalize(e.ip)

\* the temporary block in force for e's address when the call was made
TempBlockedAt(e) ==
  /\ KeyOf(e) \in DOMAIN e.pre.blockedIPs
  /\ e.t < e.pre.blockedIPs[KeyOf(e)].blockedUntil

\* the call reaches the rate-limit step
RateEligible(e) ==
  /\ config.rateLimitEnabled
  /\ ~IsInvalidIP(e.ip)
  /\ ~isIPWhitelisted(config, e.ip)
  /\ ~isIPInBlocklist(config, e.ip)
  /\ ~TempBlockedAt(e)

\* the calls for the address of call i inside the window that ends at call i
CallsInWindow(i) ==
  {j \in 1..i : /\ KeyOf(calls[j]) = KeyOf(calls[i])
                /\ calls[j].t > calls[i].t - config.rateLimitWindowMs}

\* those before call i that were admitted by the rate limiter
AdmittedBefore(i) ==
  {j \in CallsInWindow(i) \ {i} :
     calls[j].res.allowed /\ ~calls[j].res.whitelisted}

\* the call for the same address that precedes call i (0: none)
PrevCall(i) ==
  LET before == {j \in 1..(i - 1) : KeyOf(calls[j]) = KeyOf(calls[i])}
  IN  IF before = {} THEN 0 ELSE CHOOSE j \in before : \A k \in before : k <= j

\* call i is the first one for its address after a temporary block of it expired
FirstAfterExpiry(i) ==
  LET j == PrevCall(i)
      k == KeyOf(calls[i])
  IN  /\ j # 0
      /\ ~calls[j].res.allowed
      /\ k \in DOMAIN calls[j].post.blockedIPs
      /\ calls[j].post.blockedIPs[k].blockedUntil <= calls[i].t
      /\ ~isIPWhitelisted(config, calls[i].ip)
      /\ ~isIPInBlocklist(config, calls[i].ip)

Allowed     == Result(TRUE, FALSE, NoReason)
Whitelisted == Result(TRUE, TRUE, NoReason)
Denied(t)   == Result(FALSE, FALSE, Reason(t))

\* ------------------------------------------------------------------ claims

\* C1: with rate limiting enabled, a call for an address that is neither
\* whitelisted, blocklisted nor temporarily blocked is allowed when it is at
\* most the max-th call for that address in the window ending at it, and
\* when max calls for it were admitted earlier in that window it is denied
\* with "Rate limit exceeded" and a temporary block of the configured
\* duration is created (strict >).
C1_RateLimitStrict ==
  \A i \in 1..Len(calls) :
    LET e == calls[i] IN
    RateEligible(e) =>
      /\ Cardinality(CallsInWindow(i)) <= config.maxConnectionsPerWindow
           => e.res = Allowed
      /\ Cardinality(AdmittedBefore(i)) >= config.maxConnectionsPerWindow
           => /\ e.res = Denied("Rate limit exceeded")
              /\ KeyOf(e) \in DOMAIN e.post.blockedIPs
              /\ e.post.blockedIPs[KeyOf(e)].blockedUntil
                   = e.t + config.rateLimitBlockDurationMs

\* two calls admitted, the third in the same window denied and blocked
C1_Witness ==
  \E i \in 1..Len(calls) :
    /\ RateEligible(calls[i])
    /\ config.maxConnectionsPerWindow = 2
    /\ Cardinality(AdmittedBefore(i)) = 2
    /\ calls[i].res = Denied("Rate limit exceeded")
    /\ KeyOf(calls[i]) \in DOMAIN blockedIPs

\* C2 (as stated): the first call from an address after its temporary block
\* has expired is allowed.
C2_AdmittedAfterExpiry ==
  \A i \in 1..Len(calls) :
    FirstAfterExpiry(i) => calls[i].res.allowed

\* C3: a call for a whitelisted address returns {allowed, whitelisted} and
\* leaves connectionAttempts and blockedIPs as they were; no whitelisted
\* peer ever has timestamps or a temporary block.
C3_WhitelistNoMutation ==
  /\ \A i \in 1..Len(calls) :
       isIPWhitelisted(config, calls[i].ip) =>
         /\ calls[i].res = Whitelisted
         /\ calls[i].post = calls[i].pre
  /\ \A ip \in config.peers :
       isIPWhitelisted(config, ip) =>
         /\ normalize(ip) \notin DOMAIN connectionAttempts
         /\ normalize(ip) \notin DOMAIN blockedIPs

\* a whitelisted address is asked about twice, at two times, while the filter
\* holds timestamps and a block of another address
C3_Witness ==
  \E i, j \in 1..Len(calls) :
    /\ i < j
    /\ calls[i].ip = calls[j].ip
    /\ calls[i].t < calls[j].t
    /\ isIPWhitelisted(config, calls[i].ip)
    /\ calls[j].res.whitelisted
    /\ calls[j].pre.connectionAttempts # EmptyMap
    /\ calls[j].pre.blockedIPs # EmptyMap

Conns == 1..Len(conns)

\* rejected by an admission check of connect or of the SSH connection handler
FilterRejected(c) == c.verdict \in {"no-peer-address", "ip-filter", "country"}
Rejected(c)       == FilterRejected(c) \/ c.verdict = "max-connections"

\* the backend has (or is being offered) a connection for it
Bridged(c) == c.backend \in {"connecting", "open"}

\* C5: a TCP peer matching the whitelist that is handed to the admission
\* checks is admitted with whitelisted = true and the backend is dialled for
\* it, whatever the blocklist and the GeoIP database say about it; the
\* geo-filter is not evaluated and the filter's state is left unchanged.
C5_WhitelistBypassTCP ==
  \A i \in Conns :
    LET c == conns[i] IN
    (c.kind = "tcp" /\ isIPWhitelisted(config, c.ip) /\ c.verdict # "max-connections")
      => /\ c.verdict = "admitted"
         /\ c.whitelisted
         /\ ~c.geoChecked
         /\ c.backend # "none"
         /\ c.call # 0
         /\ calls[c.call].res = Whitelisted
         /\ calls[c.call].post = calls[c.call].pre

\* 10.1.2.3, in 10.0.0.0/8 (whitelist), in the blocklist and in a blocked
\* country, is bridged to the backend
C5_Witness ==
  \E i \in Conns :
    /\ conns[i].kind = "tcp"
    /\ conns[i].ip = Mapped(V4(10, 1, 2, 3))
    /\ isIPWhitelisted(config, conns[i].ip)
    /\ isIPInBlocklist(config, conns[i].ip)
    /\ getCountryInfo(config, conns[i].ip) \in config.blockedCountries
    /\ conns[i].whitelisted
    /\ conns[i].backend = "open"

\* C6: activeConnections never exceeds maxConnections; a TCP connection that
\* arrives while the count is at maxConnections is ended and not counted, and
\* the count is incremented, by one, only when it is below maxConnections.
C6_CountBounded ==
  /\ [](activeConnections <= config.maxConnections)
  /\ [][ /\ activeConnections' > activeConnections
           => /\ activeConnections < config.maxConnections
              /\ activeConnections' = activeConnections + 1
         /\ (Len(conns') > Len(conns) /\ conns'[Len(conns')].kind = "tcp"
               /\ activeConnections >= config.maxConnections)
           => /\ activeConnections' = activeConnections
              /\ conns'[Len(conns')].verdict = "max-connections"
              /\ conns'[Len(conns')].client = "ended"
              /\ ~conns'[Len(conns')].counted ]_vars

\* the count is at maxConnections and a connection was refused for it
C6_Witness ==
  /\ activeConnections = config.maxConnections
  /\ \E i \in Conns : conns[i].verdict = "max-connections" /\ ~conns[i].counted

\* C7 (as stated): the sessions bridged to the backend, TCP and SSH, are at
\* most maxConnections, and every session with a backend connection was
\* counted in activeConnections.
C7_AllSessionsLimited ==
  /\ Cardinality({i \in Conns : Bridged(conns[i])}) <= config.maxConnections
  /\ \A i \in Conns : conns[i].backend # "none" => conns[i].counted

\* C8: a refused connection (global cap, IP filter, geo-filter, missing peer
\* address), TCP or SSH, has its client endpoint ended and never has a
\* backend connection.
C8_NoBackendForRejected ==
  \A i \in Conns :
    Rejected(conns[i]) =>
      /\ conns[i].backend = "none"
      /\ conns[i].stream = "none"
      /\ conns[i].client \in {"ended", "destroyed", "closed"}

\* a TCP and an SSH connection refused by the IP filter, the first one closed
C8_Witness ==
  \E i, j \in Conns :
    /\ conns[i].kind = "tcp" /\ conns[i].verdict = "ip-filter"
    /\ conns[i].client = "closed"
    /\ conns[j].kind = "ssh" /\ conns[j].verdict = "ip-filter"

\* C9 (as stated): a connection rejected by the IP filter, the geo-filter or
\* the peer-address check never incremented activeConnections: the slots in
\* use are those of admitted sessions only.
C9_RejectsNotCounted ==
  /\ \A i \in Conns : FilterRejected(conns[i]) => ~conns[i].counted
  /\ activeConnections =
       Cardinality({i \in Conns : /\ conns[i].verdict = "admitted"
                                  /\ conns[i].counted
                                  /\ conns[i].client # "closed"})

\* C10: activeConnections is the number of counted connections whose client
\* socket has not yet emitted 'close'; it is never negative.
C10_CountMatchesOpen ==
  /\ activeConnections >= 0
  /\ activeConnections =
       Cardinality({i \in Conns : conns[i].counted /\ conns[i].client # "closed"})

\* a session ended by a client error, then its close, then the backend's
\* close; another by the backend; both closed and the count back at 0
C10_Witness ==
  /\ activeConnections = 0
  /\ \E i, j \in Conns :
       /\ conns[i].counted /\ conns[i].reason = "client-error"
       /\ conns[i].client = "closed" /\ conns[i].backend = "closed"
       /\ conns[j].counted /\ conns[j].reason \in {"backend-error", "backend-close"}
       /\ conns[j].client = "closed"

\* ---------------------------------------------------- reading the sessions
IsPrefix(a, b) == Len(a) <= Len(b) /\ a = SubSeq(b, 1, Len(a))

RECURSIVE SumSeq(_)
SumSeq(q) == IF q = <<>> THEN 0 ELSE Head(q) + SumSeq(Tail(q))

\* an admitted TCP connection: a session of the pump
Session(c) == c.kind = "tcp" /\ c.verdict = "admitted"

\* C11: in each direction of a session, TCP or SSH, the chunks written to
\* the destination are at every moment a prefix of the chunks received from
\* the source (in order, at most once, nothing inserted), and until the
\* first terminating event everything received has been written.
C11_PumpPreservesSequences ==
  \A i \in Conns :
    LET c == conns[i] IN
    /\ IsPrefix(c.txB, c.rxC)
    /\ IsPrefix(c.txC, c.rxB)
    /\ c.first = "" => (c.txB = c.rxC /\ c.txC = c.rxB)

\* two chunks forwarded in order to the backend, one of them filling its
\* buffer, and a chunk of the backend dropped after the idle timeout
C11_Witness ==
  \E i \in Conns :
    /\ conns[i].kind = "tcp"
    /\ conns[i].rxC = <<2, 1>> /\ conns[i].txB = <<2, 1>>
    /\ conns[i].pausedC
    /\ conns[i].rxB = <<1>> /\ conns[i].txC = <<>>
    /\ conns[i].first = "timeout"

\* the reasons the error and close listeners pass to cleanup
Reasons == {"client-error", "backend-error", "client-close", "backend-close"}

\* C12: cleanup is idempotent.  A second call, with any reason, returns the
\* session as the first call left it; the end of a session is reported at
\* most once, exactly once when it was cleaned up; and from the first cleanup
\* on, whatever listener runs, the reason, the report, the counters and the
\* destroyed state of both sockets stay as they are.
C12_CleanupIdempotent ==
  /\ [](\A i \in Conns :
         /\ \A r1, r2 \in Reasons :
              cleanup(cleanup(conns[i], r1), r2) = cleanup(conns[i], r1)
         /\ Session(conns[i]) =>
              conns[i].reports = (IF conns[i].isCleanedUp THEN 1 ELSE 0))
  /\ [][\A i \in Conns :
          conns[i].isCleanedUp =>
            /\ conns'[i].isCleanedUp
            /\ conns'[i].reason = conns[i].reason
            /\ conns'[i].reports = conns[i].reports
            /\ conns'[i].reported = conns[i].reported
            /\ conns'[i].bytesFromClient = conns[i].bytesFromClient
            /\ conns'[i].bytesFromBackend = conns[i].bytesFromBackend
            /\ Destroyed(conns'[i].client) /\ Destroyed(conns'[i].backend)]_vars

\* a session ended by a backend error after three bytes; the 'close'
\* listeners of both sockets have called cleanup again since
C12_Witness ==
  \E i \in Conns :
    /\ conns[i].reason = "backend-error"
    /\ conns[i].client = "closed" /\ conns[i].backend = "closed"
    /\ conns[i].reports = 1
    /\ conns[i].reported = <<2, 1>>

\* C13: once a client close, client error, backend close, backend error or
\* dial failure has happened to an admitted TCP session, both its sockets
\* are destroyed; no socket of a session is open or connecting after the
\* other one has closed.
C13_BothSidesClosed ==
  \A i \in Conns :
    LET c == conns[i] IN
    Session(c) =>
      /\ (c.first \in Reasons \/ c.dialFailed)
           => Destroyed(c.client) /\ Destroyed(c.backend)
      /\ (c.client = "closed" \/ c.backend = "closed")
           => Destroyed(c.client) /\ Destroyed(c.backend)

\* one session ended by its client's close, another by a failed dial
C13_Witness ==
  \E i, j \in Conns :
    /\ Session(conns[i]) /\ conns[i].first = "client-close"
    /\ conns[i].backend = "destroyed"
    /\ Session(conns[j]) /\ conns[j].dialFailed
    /\ conns[j].client = "destroyed"

\* C14: the reason recorded for an admitted TCP session is that of the first
\* of its terminating events (client-close, backend-close, client-error,
\* backend-error), however the events of the two sockets interleave; no
\* reason is recorded before such an event, and a recorded reason never
\* changes.
C14_FirstReasonWins ==
  /\ [](\A i \in Conns :
         Session(conns[i]) =>
           /\ conns[i].first \in Reasons => conns[i].reason = conns[i].first
           /\ conns[i].first = "" => conns[i].reason = "")
  /\ [][\A i \in Conns :
          conns[i].reason # "" => conns'[i].reason = conns[i].reason]_vars

\* a client error first, then both 'close' events; in another session the
\* backend's close first, then the client's
C14_Witness ==
  \E i, j \in Conns :
    /\ conns[i].first = "client-error" /\ conns[i].reason = "client-error"
    /\ conns[i].client = "closed" /\ conns[i].backend = "closed"
    /\ conns[j].first = "backend-close" /\ conns[j].reason = "backend-close"
    /\ conns[j].client = "closed"

\* C15: bytesFromClient is the total length of the chunks received from the
\* client and bytesFromBackend of those received from the backend; a counter
\* changes only when its own direction receives a chunk and never decreases;
\* the counters in the report of the session's end are the final ones.
C15_CountersExact ==
  /\ [](\A i \in Conns :
         /\ conns[i].bytesFromClient = SumSeq(conns[i].rxC)
         /\ conns[i].bytesFromBackend = SumSeq(conns[i].rxB)
         /\ conns[i].reports > 0 =>
              conns[i].reported = <<conns[i].bytesFromClient,
                                    conns[i].bytesFromBackend>>)
  /\ [][\A i \in Conns :
          /\ conns'[i].bytesFromClient >= conns[i].bytesFromClient
          /\ conns'[i].bytesFromBackend >= conns[i].bytesFromBackend
          /\ conns'[i].bytesFromClient # conns[i].bytesFromClient
               => conns'[i].rxC # conns[i].rxC /\ conns'[i].rxB = conns[i].rxB
          /\ conns'[i].bytesFromBackend # conns[i].bytesFromBackend
               => conns'[i].rxB # conns[i].rxB /\ conns'[i].rxC = conns[i].rxC]_vars

\* three bytes from the client in two chunks and two from the backend, the
\* last of them counted after the idle timeout, reported at the client's close
C15_Witness ==
  \E i \in Conns :
    /\ Session(conns[i])
    /\ conns[i].rxC = <<1, 2>> /\ conns[i].rxB = <<2>> /\ conns[i].txC = <<>>
    /\ conns[i].reason = "client-close"
    /\ conns[i].reported = <<3, 2>>

\* C16 (as stated): with connectionTimeout > 0 every session with a backend
\* connection, accepted by the TCP or by the SSH listener, has the idle timer
\* armed on its client endpoint, and once the timer has fired the client
\* endpoint is destroyed and, from its 'close' on, the backend socket too;
\* with connectionTimeout = 0 no session has a timer or is ended by one.
C16_IdleTeardown ==
  \A i \in Conns :
    LET c == conns[i] IN
    c.backend # "none" =>
      /\ config.connectionTimeout > 0 => c.timer
      /\ config.connectionTimeout = 0 => ~c.timer /\ c.first # "timeout"
      /\ c.first = "timeout" =>
           /\ Destroyed(c.client)
           /\ c.client = "closed" => Destroyed(c.backend)

\* C17 (as stated): a session torn down by the idle timeout is reported with
\* the reason "timeout".
C17_TimeoutReason ==
  \A i \in Conns :
    (Session(conns[i]) /\ conns[i].first = "timeout" /\ conns[i].reports > 0)
      => conns[i].reason = "timeout"

C19_ErrorsContained == alive

\* call i made a block, which lasts for the configured duration
MadeBlock(i) ==
  /\ calls[i].res = Denied("Rate limit exceeded")
  /\ KeyOf(calls[i]) \in DOMAIN calls[i].post.blockedIPs

BlockLasts(i) ==
  calls[i].post.blockedIPs[KeyOf(calls[i])].blockedUntil
    = calls[i].t + config.rateLimitBlockDurationMs

\* the block call i found: in force before blockedUntil (denied with the
\* stored reason), expired from blockedUntil on (not answered with the
\* stored reason, and the entry deleted or replaced by a block of this call)
BlockExactlyUntil(i) ==
  LET e == calls[i]
      k == KeyOf(e)
  IN  k \in DOMAIN e.pre.blockedIPs =>
        LET b == e.pre.blockedIPs[k] IN
        /\ e.t < b.blockedUntil => (~e.res.allowed /\ e.res.reason = b.reason)
        /\ e.t >= b.blockedUntil =>
             /\ e.res.reason # b.reason
             /\ k \in DOMAIN e.post.blockedIPs => e.post.blockedIPs[k].blockedAt = e.t

IPv4Peers == {normalize(p) : p \in {q \in config.peers : Len(q.oct) = 4}}

\* C21: in every filter state, asking about '::ffff:' + a and asking about a
\* give the same decision and leave the same RateState and TemporaryBlock,
\* for every IPv4 address a and whatever the lists contain.
C21_FormsAgree ==
  \A a \in IPv4Peers :
    shouldAllowConnection(config, FilterState, Mapped(a), now)
      = shouldAllowConnection(config, FilterState, a, now)

\* ---------------------------------------------------------- function checks
\* A function check follows one call of a function: args holds the arguments,
\* drawn at the start, and ret the value once the call has returned.  Nothing
\* else of the process moves.
Idle ==
  /\ run = "A" /\ now = 0
  /\ connectionAttempts = EmptyMap /\ blockedIPs = EmptyMap /\ calls = <<>>
  /\ activeConnections = 0 /\ conns = <<>> /\ alive = TRUE
  /\ proc = start(ConfigNamed("A"))
  /\ ret = <<>>

Return(v) ==
  /\ ret = <<>>
  /\ ret' = <<v>>
  /\ UNCHANGED <<run, now, connectionAttempts, blockedIPs, calls,
                 activeConnections, conns, alive, proc, args>>

Returned == ret # <<>>

\* ------------------------------------------------------------ ipMatchesCIDR
\* addresses on both sides of the bit boundaries of the entries below
CidrAddresses ==
  {V4(a, b, c, d) : a \in {10, 11, 138}, b \in {0, 1}, c \in {0, 128}, d \in {0, 1, 255}}

PrefixLengths == {0, 1, 7, 8, 9, 15, 16, 17, 24, 25, 31, 32}

CidrEntries ==
  {Cidr(base, n) : base \in {V4(10, 0, 0, 0), V4(10, 1, 128, 1), V4(138, 0, 0, 0)},
                   n \in PrefixLengths}

InitCIDR ==
  /\ Idle
  /\ args \in [ip : CidrAddresses, cidr : CidrEntries]

MatchCIDR == Return(ipMatchesCIDR(args.ip, args.cidr))

NextCIDR == MatchCIDR

SpecCIDR == InitCIDR /\ [][NextCIDR]_vars

\* a dotted quad read as an unsigned 32-bit big-endian integer, as <<high 16
\* bits, low 16 bits>>
Word(s) == <<s.oct[1] * 256 + s.oct[2], s.oct[3] * 256 + s.oct[4]>>

\* the first n bits of a word
FirstBits(x, n) ==
  IF n <= 16 THEN <<x[1] \div TwoPow(16 - n), 0>>
  ELSE <<x[1], x[2] \div TwoPow(32 - n)>>

\* C22: for an IPv4 address ip and an entry A.B.C.D/N with 0 <= N <= 32 the
\* match is true exactly when ip and A.B.C.D agree in their first N bits; so
\* a /0 entry matches every address and a /32 entry only the address itself.
C22_CidrMatch ==
  Returned =>
    (ret[1] <=> FirstBits(Word(args.ip), args.cidr.bits)
                  = FirstBits(Word(args.cidr), args.cidr.bits))

\* ----------------------------------------------------------------- normalize
\* strings with no, one and two leading "::ffff:" tokens in three spellings
Prefixes ==
  LET tok == {"::ffff:", "::FFFF:", "::Ffff:"}
  IN  {<<>>} \cup {<<a>> : a \in tok} \cup {<<a, b>> : a \in tok, b \in tok}

NormalizeInputs ==
  {[s EXCEPT !.pfx = p] :
     s \in {V4(198, 51, 100, 9), V4(10, 0, 0, 50), V4(0, 0, 0, 0),
            Cidr(V4(10, 0, 0, 0), 8), Text("2001:db8::1"), Text("unknown"),
            Text("localhost"), EmptyString},
     p \in Prefixes}

InitNormalize ==
  /\ Idle
  /\ args \in [x : NormalizeInputs]

\* cleanIp = ipAddress.replace(...), and the same replace applied to cleanIp
\* (as blockIP does with the cleanIp recordConnectionAttempt hands it)
Normalize ==
  Return([once |-> normalize(args.x), twice |-> normalize(normalize(args.x))])

NextNormalize == Normalize

SpecNormalize == InitNormalize /\ [][NextNormalize]_vars

\* C23: normalization is idempotent: normalize(normalize(x)) = normalize(x)
\* for every input string x.
C23_NormalizeIdempotent ==
  Returned => ret[1].twice = ret[1].once

\* ------------------------------------------------------ the SSH front-end
SSHConns == {i \in Conns : conns[i].kind = "ssh"}

\* the timestamps kept for key k in filter state F
AttemptsOf(F, k) ==
  IF k \in DOMAIN F.connectionAttempts THEN F.connectionAttempts[k] ELSE <<>>

\* C24: on the SSH front-end the IP filter is asked before authentication:
\* a transport it denies is ended, no authentication attempt of it is
\* accepted, no session channel is opened and no backend connection is made;
\* each SSH connection asks the filter once, and that call adds at most one
\* timestamp to the rate-limit state.
C24_SSHFilterBeforeAuth ==
  /\ \A i \in SSHConns :
       /\ conns[i].call \in 1..Len(calls)
       /\ calls[conns[i].call].via = "ssh"
       /\ calls[conns[i].call].ip = conns[i].ip
       /\ (conns[i].verdict = "admitted") = calls[conns[i].call].res.allowed
       /\ ~calls[conns[i].call].res.allowed =>
            /\ conns[i].verdict = "ip-filter"
            /\ conns[i].client \in {"ended", "closed"}
            /\ conns[i].phase = "none"
            /\ conns[i].stream = "none"
            /\ conns[i].backend = "none"
  /\ Cardinality({k \in 1..Len(calls) : calls[k].via = "ssh"}) = Cardinality(SSHConns)
  /\ \A i, j \in SSHConns : conns[i].call = conns[j].call => i = j
  /\ \A k \in 1..Len(calls) :
       calls[k].via = "ssh" =>
         \A a \in DOMAIN calls[k].post.connectionAttempts :
           Len(AttemptsOf(calls[k].post, a))
             <= Len(AttemptsOf(calls[k].pre, a)) + (IF a = KeyOf(calls[k]) THEN 1 ELSE 0)

\* an SSH peer was denied by the filter and its transport has closed, while
\* another SSH peer was admitted and authenticated
C24_Witness ==
  \E i, j \in SSHConns :
    /\ conns[i].verdict = "ip-filter" /\ conns[i].client = "closed"
    /\ conns[j].verdict = "admitted" /\ conns[j].phase = "ready"

\* ------------------------------------------------------------ authentication
AuthMethods == {"password", "none", "publickey", "keyboard-interactive", "hostbased"}

AuthContexts ==
  [method   : AuthMethods,
   username : {"", "sysop", "guest", "root"},
   password : {"", "secret", "wrong", "guest", "x"}]

InitAuth ==
  /\ Idle
  /\ args \in [ctx : AuthContexts]

Authenticate == Return(authentication(args.ctx))

NextAuth == Authenticate

SpecAuth == InitAuth /\ [][NextAuth]_vars

\* C25: an authentication attempt with method password or none is accepted
\* whatever username and password it offers; an attempt with another method
\* is rejected with password and none advertised; so the answer depends on
\* the method alone and no attempt is rejected for its credentials.
C25_AnyCredentialsAccepted ==
  Returned =>
    /\ args.ctx.method \in {"password", "none"} => ret[1].reply = "accept"
    /\ args.ctx.method \notin {"password", "none"} =>
         /\ ret[1].reply = "reject"
         /\ ret[1].methods = <<"password", "none">>
    /\ \A other \in AuthContexts :
         other.method = args.ctx.method => authentication(other) = ret[1]

\* a password attempt with an empty password was accepted
C25_Witness ==
  /\ Returned
  /\ args.ctx.method = "password" /\ args.ctx.password = ""
  /\ args.ctx.username = "root"
  /\ ret[1].reply = "accept"

\* ------------------------------------------------- reading the channel requests
\* the requests of type ty made so far on the session channel of c
RequestsOf(c, ty) == {k \in 1..Len(c.requests) : c.requests[k].type = ty}

\* C26: an exec request on a session channel is rejected in every channel
\* state; the step that handles it dials no backend and leaves the shell of
\* that session, its stream, its backend socket and its byte counters, as
\* they were.
C26_ExecRejected ==
  /\ [](\A i \in SSHConns : \A k \in RequestsOf(conns[i], "exec") :
          conns[i].requests[k].reply = "reject")
  /\ [][\A i \in SSHConns :
          (/\ i <= Len(conns')
           /\ Len(conns'[i].requests) = Len(conns[i].requests) + 1
           /\ conns'[i].requests[Len(conns'[i].requests)].type = "exec")
          => conns'[i] = [conns[i] EXCEPT !.requests = conns'[i].requests]]_vars

\* an exec request was rejected while the shell of the session was bridged
\* to a connected backend, bytes had gone both ways, and the shell is still
\* up; another exec request had been rejected before the shell was asked for
C26_Witness ==
  \E i \in SSHConns :
    LET c == conns[i] IN
    /\ Len(c.requests) = 3
    /\ c.requests[1].type = "exec" /\ c.requests[1].reply = "reject"
    /\ c.requests[2].type = "shell"
    /\ c.requests[3].type = "exec" /\ c.requests[3].reply = "reject"
    /\ c.stream = "open" /\ c.backend = "open" /\ c.dials = 1
    /\ c.bytesFromClient > 0 /\ c.bytesFromBackend > 0
    /\ c.txB = c.rxC /\ c.txC = c.rxB

LastBeforeShell(c, ty) ==
  LET before == {k \in RequestsOf(c, ty) :
                   \A s \in RequestsOf(c, "shell") : k < s}
  IN  IF before = {} THEN 0
      ELSE CHOOSE k \in before : \A j \in before : j <= k

\* the terminal type and the environment the client presented for the shell
TermOf(c) ==
  IF LastBeforeShell(c, "pty") = 0 THEN <<>>
  ELSE c.requests[LastBeforeShell(c, "pty")].info

EnvOf(c) ==
  IF LastBeforeShell(c, "env") = 0 THEN NoEnv
  ELSE LET info == c.requests[LastBeforeShell(c, "env")].info
       IN  [x \in {Head(info)} |-> Tail(info)]

\* the encoding the two detectors give for them, the environment first
DetectedEncoding(c) ==
  IF detectFromSSHEnvironment(EnvOf(c)) = "utf8" THEN "utf8"
  ELSE detectFromTerminalType(TermOf(c))

\* C28: the port dialled for an SSH shell is the one getBackendPortForEncoding
\* gives for the encoding detected from the session's environment and
\* terminal type; for a client presenting TERM=xterm-256color and
\* LANG=en_US.UTF-8 the encoding is utf8 and, with encoding detection on,
\* the port is backendPortUTF8.
C28_SSHPortByEncoding ==
  \A i \in SSHConns :
    LET c == conns[i] IN
    c.dials = 1 =>
      /\ c.port = getBackendPortForEncoding(DetectedEncoding(c), config)
      /\ (/\ TermOf(c) = <<"xterm", "-256color">>
          /\ EnvOf(c) = [x \in {"LANG"} |-> <<"en_US", ".", "UTF-8">>])
           => /\ DetectedEncoding(c) = "utf8"
              /\ config.encodingDetection => c.port = config.backendPortUTF8

\* C29: the firewall rules apply to SSH connections as to TCP ones: an SSH
\* peer that is not whitelisted and whose country is blocked (or unknown
\* while blockUnknownCountries is set) is rejected and gets no backend
\* connection.
C29_SSHGeoFiltered ==
  \A i \in SSHConns :
    (~isIPWhitelisted(config, conns[i].ip) /\ shouldBlockConnection(config, conns[i].ip))
      => /\ conns[i].verdict # "admitted"
         /\ conns[i].backend = "none"

\* ------------------------------------------------------ the geo decision
\* the settings and the database shouldBlockConnection reads: the database
\* loaded or not, the blocked set as config.js builds it (upper case), the
\* flag, and what the database holds for the peer: no record, a record
\* without a country code, or a code
GeoPeer == V4(203, 0, 113, 7)

GeoConfigs ==
  {[geoEnabled |-> e, blockedCountries |-> bc, blockUnknownCountries |-> u,
    country |-> m] :
     e \in BOOLEAN, bc \in SUBSET {"CN", "US"}, u \in BOOLEAN,
     m \in {[x \in {} |-> ""]} \cup
           {[x \in {GeoPeer} |-> code] : code \in {"", "CN", "cn", "US", "DE"}}}

InitGeo ==
  /\ Idle
  /\ args \in [cfg : GeoConfigs, ip : {GeoPeer, Mapped(GeoPeer)}]

ShouldBlock == Return(shouldBlockConnection(args.cfg, args.ip))

NextGeo == ShouldBlock

SpecGeo == InitGeo /\ [][NextGeo]_vars

\* the country code the database holds for the peer of the call, "" if none
CodeInDatabase ==
  IF GeoPeer \in DOMAIN args.cfg.country THEN args.cfg.country[GeoPeer] ELSE ""

\* C30: the geo decision is false whenever the database is not loaded, also
\* with blockUnknownCountries set; else it is blockUnknownCountries when the
\* lookup gives no country code; else it is true exactly when the upper-cased
\* code is in the blocked set.
C30_GeoDecision ==
  Returned =>
    ret[1] = (IF ~args.cfg.geoEnabled THEN FALSE
              ELSE IF CodeInDatabase = "" THEN args.cfg.blockUnknownCountries
              ELSE \E b \in args.cfg.blockedCountries :
                     b = UpperPiece(CodeInDatabase))

\* database loaded, BLOCKED_COUNTRIES=CN, BLOCK_UNKNOWN_COUNTRIES=true: a
\* peer (in mapped form) for which the database has no record is denied
C30_Witness ==
  /\ Returned
  /\ args.cfg.geoEnabled /\ args.cfg.blockedCountries = {"CN"}
  /\ args.cfg.blockUnknownCountries
  /\ DOMAIN args.cfg.country = {} /\ args.ip = Mapped(GeoPeer)
  /\ ret[1] = TRUE

\* ------------------------------------------------------ peers without address
\* the peer address of connection c could not be determined at setup: TCP
\* keeps the undefined remoteAddress, SSH puts the word unknown in its place
NoPeerAddress(c) ==
  \/ c.kind = "tcp" /\ IsInvalidIP(c.ip)
  \/ c.kind = "ssh" /\ c.ip = Text("unknown")

\* C31: on either front-end a connection whose peer address cannot be
\* determined is refused: its client endpoint is closed, no backend is
\* dialled for it, it is not admitted, and the rate limiter counts nothing
\* under a placeholder address.
C31_NoPeerAddressRefused ==
  /\ \A i \in Conns :
       NoPeerAddress(conns[i]) =>
         /\ conns[i].verdict # "admitted"
         /\ conns[i].client # "open"
         /\ conns[i].backend = "none"
         /\ conns[i].call = 0
  /\ Text("unknown") \notin DOMAIN connectionAttempts

\* ---------------------------------------------------------- graceful shutdown
\* how many shutdown signals a behaviour delivers
MaxSignals == 2

\* the kind of connection a listener accepts
KindOf(which) == IF which = "server" THEN "tcp" ELSE "ssh"

\* net.Server emits 'close' once it has stopped listening and every
\* connection it accepted has closed
Drained(which) ==
  /\ proc[which] \in {"closing", "closed"}
  /\ \A i \in 1..Len(conns) :
       conns[i].kind = KindOf(which) => conns[i].client = "closed"

\* SIGTERM or SIGINT is delivered: the handler runs
Shutdown ==
  /\ alive
  /\ Len(proc.shutdowns) < MaxSignals
  /\ proc' = shutdown(proc)
  /\ alive' = (proc'.exitCode = NoExit)
  /\ UNCHANGED <<run, now, connectionAttempts, blockedIPs, calls,
                 activeConnections, conns, callVars>>

\* a listener emits 'close' to the callbacks waiting for it
ServerClosed(which) ==
  /\ alive
  /\ Drained(which)
  /\ \E k \in DOMAIN proc.shutdowns : proc.shutdowns[k][which]
  /\ proc' = serverClosed(proc, which)
  /\ alive' = (proc'.exitCode = NoExit)
  /\ UNCHANGED <<run, now, connectionAttempts, blockedIPs, calls,
                 activeConnections, conns, callVars>>

\* the 10 s timer of run k of the handler fires: process.exit(1)
ForceShutdown(k) ==
  /\ alive
  /\ proc.shutdowns[k].timer
  /\ proc' = forceShutdown(proc, k)
  /\ alive' = FALSE
  /\ UNCHANGED <<run, now, connectionAttempts, blockedIPs, calls,
                 activeConnections, conns, callVars>>

Timers == \E k \in DOMAIN proc.shutdowns : ForceShutdown(k)

NextShutdown ==
  \/ \E ip \in config.arrivals : TCPAccept(ip)
  \/ \E ip \in config.arrivals : SSHAccept(ip)
  \/ \E i \in 1..Len(conns) : ClientClose(i)
  \/ \E i \in 1..Len(conns) : SSHClientClose(i)
  \/ Shutdown
  \/ ServerClosed("server")
  \/ ServerClosed("sshServer")
  \/ \E k \in DOMAIN proc.shutdowns : ForceShutdown(k)

\* the process after start(), with SSH_ENABLED set either way
InitShutdown ==
  /\ run \in {c.name : c \in Configs}
  /\ now = 0
  /\ connectionAttempts = EmptyMap
  /\ blockedIPs = EmptyMap
  /\ calls = <<>>
  /\ activeConnections = 0
  /\ conns = <<>>
  /\ alive = TRUE
  /\ proc \in {start([config EXCEPT !.sshEnabled = e]) : e \in BOOLEAN}
  /\ args = <<>>
  /\ ret = <<>>

\* an armed timer fires unless the process exits before
SpecShutdown == InitShutdown /\ [][NextShutdown]_vars /\ WF_vars(Timers)

Signalled == proc.shutdowns # <<>>
Listeners == {w \in {"server", "sshServer"} : proc[w] # "none"}
InFlight == {i \in 1..Len(conns) : conns[i].client # "closed"}

\* C32: after a shutdown signal every started listener has been asked to
\* close and accepts no new connection; the signal closes no session; the
\* process exits with 0 only once all started listeners have closed, which
\* they do only after their sessions ended, and with 1 when the timer fires
\* before that; after a signal the process always eventually exits.
C32_GracefulShutdown ==
  /\ [](Signalled => \A w \in Listeners : proc[w] # "listening")
  /\ [][Signalled => Len(conns') = Len(conns)]_vars
  /\ [][proc.shutdowns' # proc.shutdowns /\ ~Signalled => conns' = conns]_vars
  /\ [](proc.exitCode = 0 =>
          /\ \A w \in Listeners : proc[w] = "closed"
          /\ InFlight = {})
  /\ [](proc.exitCode = 1 => \E w \in Listeners : proc[w] # "closed")
  /\ [](alive <=> proc.exitCode = NoExit)
  /\ (Signalled ~> proc.exitCode \in {0, 1})

\* an admitted session ended on its own, both
\* listeners closed and the process exited with 0
C32_Witness ==
  /\ proc.exitCode = 0
  /\ proc.sshServer = "closed"
  /\ Len(proc.shutdowns) = 2
  /\ \E i \in 1..Len(conns) : conns[i].verdict = "admitted"

\* ------------------------------------------------- whitelist and the stages
\* the filter finds the peer of connection c in the whitelist
WhitelistedPeer(c) == ~IsInvalidIP(c.ip) /\ isIPWhitelisted(config, c.ip)

\* C33 (as stated): a whitelisted peer is refused by no stage of admission,
\* the global connection cap included.
C33_WhitelistBypassesAll ==
  \A i \in Conns : WhitelistedPeer(conns[i]) => ~Rejected(conns[i])

\* C33 (amended): a whitelisted peer is never refused by the blocklist, the
\* rate limit or the geo-filter, on either listener; the only refusal it can
\* meet is the global connection cap of the TCP listener, which is checked
\* before the whitelist.
C33_WhitelistBypassesFilters ==
  \A i \in Conns :
    WhitelistedPeer(conns[i]) =>
      /\ ~FilterRejected(conns[i])
      /\ Rejected(conns[i]) =>
           conns[i].kind = "tcp" /\ conns[i].verdict = "max-connections"

\* a peer that is whitelisted and blocklisted was admitted, and a connection
\* of a whitelisted peer was refused at the cap
C33_Witness ==
  /\ \E i \in Conns : /\ WhitelistedPeer(conns[i])
                      /\ isIPInBlocklist(config, conns[i].ip)
                      /\ conns[i].verdict = "admitted"
  /\ \E j \in Conns : /\ WhitelistedPeer(conns[j])
                      /\ conns[j].verdict = "max-connections"

\* ------------------------------------------------ the backend port of a dial
\* the encodings the function is asked about
Encodings == {"utf8", "cp437", "ascii", "UTF8"}

\* configuration A with the encoding settings set every way
PortConfigs ==
  {[CfgA EXCEPT !.encodingDetection = e, !.backendPort = p,
                !.backendPortUTF8 = u, !.backendPortCP437 = c] :
     e \in BOOLEAN, p \in {23, 2323}, u \in {2323, 2324}, c \in {2323, 2325}}

InitPort ==
  /\ Idle
  /\ args \in [encoding : Encodings, cfg : PortConfigs]

\* one call of getBackendPortForEncoding
PortForEncoding ==
  Return([of |-> "getBackendPortForEncoding", dials |-> 0,
          port |-> getBackendPortForEncoding(args.encoding, args.cfg)])

\* a plain TCP connection of an admitted peer goes through connect
PlainTCPDial ==
  \E r \in {connect(args.cfg, [connectionAttempts |-> EmptyMap, blockedIPs |-> EmptyMap],
                    NewConn("tcp", V4(198, 51, 100, 9)), 0)} :
    Return([of |-> "connect", dials |-> r.conn.dials, port |-> r.conn.port])

NextPort ==
  \/ PortForEncoding
  \/ PlainTCPDial

SpecPort == InitPort /\ [][NextPort]_vars

\* C34: getBackendPortForEncoding returns backendPort whenever detection is
\* disabled, otherwise backendPortUTF8 for 'utf8' and backendPortCP437 for any
\* other encoding; a plain TCP session dials backendPort when detection is
\* disabled and backendPortCP437 when it is enabled, never backendPortUTF8
\* (where that is a different port).
C34_BackendPort ==
  Returned =>
    /\ ret[1].of = "getBackendPortForEncoding" =>
         /\ ~args.cfg.encodingDetection => ret[1].port = args.cfg.backendPort
         /\ args.cfg.encodingDetection /\ args.encoding = "utf8" =>
              ret[1].port = args.cfg.backendPortUTF8
         /\ args.cfg.encodingDetection /\ args.encoding # "utf8" =>
              ret[1].port = args.cfg.backendPortCP437
    /\ ret[1].of = "connect" =>
         /\ ret[1].dials = 1
         /\ ~args.cfg.encodingDetection => ret[1].port = args.cfg.backendPort
         /\ args.cfg.encodingDetection =>
              /\ ret[1].port = args.cfg.backendPortCP437
              /\ args.cfg.backendPortUTF8 # args.cfg.backendPortCP437 =>
                   ret[1].port # args.cfg.backendPortUTF8

\* with detection enabled and three different ports, a TCP session dialled
\* the CP437 port
C34_Witness ==
  /\ Returned
  /\ ret[1].of = "connect"
  /\ args.cfg.encodingDetection
  /\ args.cfg.backendPortUTF8 # args.cfg.backendPortCP437
  /\ args.cfg.backendPort # args.cfg.backendPortCP437
  /\ ret[1].port = args.cfg.backendPortCP437

\* --------------------------------------------------------------- backpressure
\* C35: in each direction, once write() has returned false the source is
\* paused and no further chunk of that direction is forwarded until the
\* destination emits 'drain'; on 'drain' the source is resumed, so a source
\* is paused without a pending 'drain' only in an SSH session whose source
\* has been destroyed; pausing or resuming one direction leaves the other
\* direction's pause alone.
C35_Backpressure ==
  /\ [](\A i \in Conns :
          /\ conns[i].needDrainB => conns[i].pausedC
          /\ conns[i].needDrainC => conns[i].pausedB
          /\ conns[i].pausedC /\ ~conns[i].needDrainB =>
               conns[i].kind = "ssh" /\ Destroyed(conns[i].stream)
          /\ conns[i].pausedB /\ ~conns[i].needDrainC =>
               conns[i].kind = "ssh" /\ Destroyed(conns[i].backend))
  /\ [][\A i \in Conns :
          /\ conns[i].needDrainB => conns'[i].txB = conns[i].txB
          /\ conns[i].needDrainC => conns'[i].txC = conns[i].txC
          /\ conns'[i].pausedC # conns[i].pausedC =>
               conns'[i].pausedB = conns[i].pausedB
          /\ conns'[i].pausedB # conns[i].pausedB =>
               conns'[i].pausedC = conns[i].pausedC]_vars

\* the client of a live TCP session is paused because the backend socket is
\* full, while chunks of the backend have reached the client and the backend
\* is not paused
C35_Witness ==
  \E i \in Conns :
    /\ conns[i].kind = "tcp" /\ conns[i].client = "open" /\ conns[i].backend = "open"
    /\ conns[i].pausedC /\ conns[i].needDrainB
    /\ ~conns[i].pausedB
    /\ conns[i].txC # <<>>

\* ------------------------------------------------------- what the janitor leaves
\* a step of the janitor that changed the filter state: neither the clock
\* nor the history of calls moves
JanitorStep == now' = now /\ calls' = calls

\* the timestamps of list inside the window that ends at now
InWindow(list) == SelectSeq(list, LAMBDA time : time > now - config.rateLimitWindowMs)

\* C36: after every shouldAllowConnection call and every janitor pass no IP
\* has an empty timestamp list; right after a janitor pass at time now there
\* is no timestamp older than now - rateLimitWindowMs and no block with
\* blockedUntil <= now, while the timestamps inside the window and the
\* blocks with blockedUntil > now are all kept as they were.
C36_JanitorPrunes ==
  /\ [](\A ip \in DOMAIN connectionAttempts : connectionAttempts[ip] # <<>>)
  /\ [][JanitorStep =>
          /\ \A ip \in DOMAIN connectionAttempts' :
               \A k \in DOMAIN connectionAttempts'[ip] :
                 ~(connectionAttempts'[ip][k] < now - config.rateLimitWindowMs)
          /\ \A ip \in DOMAIN blockedIPs' : ~(blockedIPs'[ip].blockedUntil <= now)
          /\ \A ip \in DOMAIN connectionAttempts :
               InWindow(connectionAttempts[ip]) # <<>> =>
                 /\ ip \in DOMAIN connectionAttempts'
                 /\ connectionAttempts'[ip] = InWindow(connectionAttempts[ip])
          /\ \A ip \in DOMAIN blockedIPs :
               blockedIPs[ip].blockedUntil > now =>
                 /\ ip \in DOMAIN blockedIPs'
                 /\ blockedIPs'[ip] = blockedIPs[ip]]_vars

\* the janitor has removed the whole list of one address and pruned the list
\* of another, whose later attempt it kept
C36_Witness ==
  /\ \E k \in DOMAIN calls :
       /\ calls[k].res.allowed /\ ~calls[k].res.whitelisted
       /\ KeyOf(calls[k]) \notin DOMAIN connectionAttempts
  /\ LET last == calls[Len(calls)]
     IN  /\ KeyOf(last) \in DOMAIN connectionAttempts
         /\ KeyOf(last) \in DOMAIN last.post.connectionAttempts
         /\ Len(connectionAttempts[KeyOf(last)])
              < Len(last.post.connectionAttempts[KeyOf(last)])

\* ------------------------------------------------------- SSH bridge teardown
\* the socket or stream is connecting or connected
Live(sock) == sock \in {"connecting", "open"}

\* C37: in the SSH bridge the shell channel is ended when the backend socket
\* closes or errors, a failed dial included, and the backend socket is
\* destroyed when the channel closes or errors: no backend socket is open or
\* connecting once its channel has closed, and no channel is still open for
\* writing once its backend socket is gone.
C37_SSHTeardown ==
  /\ [](\A i \in Conns :
          conns[i].kind = "ssh" =>
            /\ Destroyed(conns[i].stream) => ~Live(conns[i].backend)
            /\ Destroyed(conns[i].backend) => conns[i].stream # "open"
            /\ conns[i].dialFailed => conns[i].stream # "open")
  /\ [][\A i \in Conns :
          conns[i].kind = "ssh" =>
            /\ Live(conns[i].backend) /\ ~Live(conns'[i].backend)
                 /\ conns[i].stream = "open"
                 => conns'[i].stream \in {"ended", "destroyed", "closed"}
            /\ ~Destroyed(conns[i].stream) /\ Destroyed(conns'[i].stream)
                 => Destroyed(conns'[i].backend)]_vars

\* a backend dial of an SSH shell failed and the channel was ended, the
\* transport being still open
C37_Witness ==
  \E i \in Conns :
    /\ conns[i].kind = "ssh" /\ conns[i].client = "open"
    /\ conns[i].dialFailed
    /\ conns[i].stream = "ended"

\* ------------------------------------------------- the janitor and the calls
\* The filter next to a twin that receives the same calls at the same times
\* and never runs the janitor: args is the twin's state, ret its results.
InitTwin ==
  /\ run \in {c.name : c \in Configs}
  /\ now = 0
  /\ connectionAttempts = EmptyMap
  /\ blockedIPs = EmptyMap
  /\ calls = <<>>
  /\ activeConnections = 0
  /\ conns = <<>>
  /\ alive = TRUE
  /\ proc = start(config)
  /\ args = [connectionAttempts |-> EmptyMap, blockedIPs |-> EmptyMap]
  /\ ret = <<>>

\* the same call on the filter and on its twin
TwinCall(ip) ==
  /\ Len(calls) < MaxCalls
  /\ \E r \in {shouldAllowConnection(config, FilterState, ip, now)} :
         /\ connectionAttempts' = r.F.connectionAttempts
         /\ blockedIPs' = r.F.blockedIPs
         /\ calls' = Append(calls, Call(ip, now, r.res, FilterState, r.F, "api"))
  /\ \E q \in {shouldAllowConnection(config, args, ip, now)} :
         /\ args' = q.F
         /\ ret' = Append(ret, q.res)
  /\ UNCHANGED <<run, now, activeConnections, conns, alive, proc>>

NextTwin ==
  \/ Tick
  \/ Janitor
  \/ \E ip \in config.arrivals : TwinCall(ip)

SpecTwin == InitTwin /\ [][NextTwin]_vars

\* the timestamps of ip in map m that a call made now would still count
Counted(m, ip) == IF ip \in DOMAIN m THEN InWindow(m[ip]) ELSE <<>>

\* the temporary blocks of map m that are in force now
InForce(m) == {ip \in DOMAIN m : now < m[ip].blockedUntil}

\* C38: janitor passes inserted at any points change the result of no later
\* shouldAllowConnection call: the filter answers every call as the twin
\* without janitor does, and it holds every timestamp a call would still
\* count and every block still in force that the twin holds.
C38_JanitorTransparent ==
  /\ \A k \in DOMAIN calls : calls[k].res = ret[k]
  /\ \A ip \in DOMAIN args.connectionAttempts :
       Counted(connectionAttempts, ip) = Counted(args.connectionAttempts, ip)
  /\ \A ip \in InForce(args.blockedIPs) :
       ip \in DOMAIN blockedIPs /\ blockedIPs[ip] = args.blockedIPs[ip]

\* the janitor removed the list of an address between two calls about it,
\* and a block the twin still holds; the twin kept the old timestamps
C38_Witness ==
  /\ \E ip \in DOMAIN args.blockedIPs : ip \notin DOMAIN blockedIPs
  /\ \E j, k \in DOMAIN calls :
       /\ j < k
       /\ KeyOf(calls[j]) = KeyOf(calls[k])
       /\ KeyOf(calls[j]) \in DOMAIN calls[j].post.connectionAttempts
       /\ KeyOf(calls[k]) \notin DOMAIN calls[k].pre.connectionAttempts
       /\ Len(Counted(args.connectionAttempts, KeyOf(calls[k])))
            < Len(args.connectionAttempts[KeyOf(calls[k])])

\* ------------------------------------------- calls denied before the counting
\* the peers that connect and the IPv4 peers in the blocklist, the latter
\* also in their canonical form: a listener bound to an IPv4 address reports
\* a.b.c.d where a dual-stack one reports ::ffff:a.b.c.d
BothForms(cfg) ==
  LET listed == {p \in cfg.peers : /\ ~IsInvalidIP(p)
                                   /\ p.oct # <<>>
                                   /\ isIPInBlocklist(cfg, p)}
  IN  cfg.arrivals \cup listed \cup {normalize(p) : p \in listed}

NextForms ==
  \/ Tick
  \/ Janitor
  \/ \E ip \in BothForms(config) : ShouldAllow(ip)

SpecForms == Init /\ [][NextForms]_vars

\* the call was denied before the rate-limit step: its address was invalid,
\* in the blocklist or under a temporary block
DeniedEarly(e) ==
  /\ ~e.res.allowed
  /\ e.res.reason # Reason("Rate limit exceeded")

\* the host of ip is in the blocklist, in the form asked about or in the other
Blocklisted(ip) ==
  /\ ~IsInvalidIP(ip)
  /\ \/ isIPInBlocklist(config, ip)
     \/ isIPInBlocklist(config, normalize(ip))
     \/ normalize(ip).oct # <<>> /\ isIPInBlocklist(config, Mapped(normalize(ip)))

\* C39: a call for a non-whitelisted address that is denied before the
\* rate-limit step (invalid address, blocklist, temporary block in force)
\* leaves connectionAttempts and blockedIPs as they were, and a blocklisted
\* address never has timestamps or a temporary block.
C39_DeniedLeavesState ==
  /\ \A k \in DOMAIN calls :
       DeniedEarly(calls[k]) => calls[k].post = calls[k].pre
  /\ \A ip \in BothForms(config) :
       Blocklisted(ip) =>
         /\ normalize(ip) \notin DOMAIN connectionAttempts
         /\ normalize(ip) \notin DOMAIN blockedIPs

\* ------------------------------------------------ one filter, two listeners
\* how many connections the two listeners accept while admissions are followed
MaxAdmissions == 3

\* the two listeners accept connections as time passes
NextShared ==
  \/ Tick
  \/ \E ip \in config.arrivals : TCPAcceptUpTo(ip, MaxAdmissions)
  \/ \E ip \in config.arrivals : SSHAcceptUpTo(ip, MaxAdmissions)

SpecShared == Init /\ [][NextShared]_vars

\* the calls up to call k that reached the rate-limit step for the address
\* of call k inside the window that ends at call k, on either listener
CountedCalls(k) == {j \in CallsInWindow(k) : RateEligible(calls[j])}

\* C40: the two listeners ask one filter.  The list recorded for an address
\* after a call holds exactly the attempts made for it on either listener
\* inside the window, none lost; a temporary block in force denies the
\* address whichever listener caused it and whichever is asked; and the
\* calls admitted for one address inside one window are never more than
\* maxConnectionsPerWindow.
C40_SharedFilter ==
  \A k \in DOMAIN calls :
    LET e == calls[k] IN
    /\ RateEligible(e) =>
         /\ KeyOf(e) \in DOMAIN e.post.connectionAttempts
         /\ Len(e.post.connectionAttempts[KeyOf(e)]) = Cardinality(CountedCalls(k))
         /\ \A j \in CountedCalls(k) :
              \E p \in DOMAIN e.post.connectionAttempts[KeyOf(e)] :
                e.post.connectionAttempts[KeyOf(e)][p] = calls[j].t
    /\ \A j \in 1..(k - 1) :
         /\ KeyOf(calls[j]) = KeyOf(e)
         /\ RateEligible(calls[j]) /\ ~calls[j].res.allowed
         /\ e.t < calls[j].post.blockedIPs[KeyOf(e)].blockedUntil
         => ~e.res.allowed
    /\ Cardinality({j \in CallsInWindow(k) :
                      calls[j].res.allowed /\ ~calls[j].res.whitelisted})
         <= config.maxConnectionsPerWindow

\* an address admitted on TCP used up its budget, was denied and blocked on
\* SSH, and was then denied on TCP by the block made on SSH
C40_Witness ==
  \E i, j, k \in DOMAIN calls :
    /\ i < j /\ j < k
    /\ KeyOf(calls[i]) = KeyOf(calls[j]) /\ KeyOf(calls[j]) = KeyOf(calls[k])
    /\ calls[i].via = "tcp" /\ calls[i].res = Allowed
    /\ calls[j].via = "ssh" /\ calls[j].res = Denied("Rate limit exceeded")
    /\ calls[k].via = "tcp" /\ TempBlockedAt(calls[k]) /\ ~calls[k].res.allowed

====
